---- MODULE Spec2Model ----
(***************************************************************************)
(* A model of pycollada's document loading core:                           *)
(*   - collada.util.IndexedList      (list + identity index)               *)
(*   - collada.util.LazyIndexedList  (decode-on-access collection)         *)
(*   - collada.Collada               (error policy, load orchestration)    *)
(* Each component has its own specification over its own variables; the    *)
(* variables of the other components stay at their initial values.         *)
(***************************************************************************)
EXTENDS Integers, Sequences, FiniteSets, TLC

VARIABLES
    ilPool,     \* IndexedList: the objects callers hand to the collection
    ilSeq,      \* IndexedList: the underlying list (list.__getitem__ view)
    ilIndex,    \* IndexedList: self._index, id -> object
    ilLast,     \* IndexedList: the last call, [op, res, key, new, pos] (res = "ok" or the
                \* exception raised; pos = where the key was found before the call, 0: nowhere)
    lzPending,  \* LazyIndexedList: self._pending_nodes, id -> xml node
    lzLoaded,   \* LazyIndexedList: self._loaded, id -> object
    lzObjects,  \* LazyIndexedList: self._loaded_objects
    lzOrder,    \* LazyIndexedList: self._order
    lzDecodes,  \* history: calls of self._loader_func so far, per node id
    lzRegs,     \* history: add_node calls that registered a node, per id
    lzFirst,    \* history: the ids registered or appended, in order of first insertion
    lzReturned, \* history: the objects materialization has returned so far, per id
    lzSince,    \* history: the same, since the last append of an object of that id
    lzLast,     \* LazyIndexedList: the last call, [op, res, val, out, key] (key: the
                \* position passed to collection[i], 0 for the other calls)
    docMask,    \* Collada: self.maskedErrors
    docErrors,  \* Collada: self.errors, the kind of each recorded error
    docLast,    \* Collada: the last ignoreErrors / handleError call and its outcome
    docNodeLibs,\* which <library_nodes> contents the input may have: "none", "plain", "any"
    docPhase,   \* "new", "init" (__init__ is loading), "ready", "failed" (__init__ raised), "load_scenes"
    docLazy,    \* Collada: self._lazy
    docStage,   \* position in the loader sequence: index of the loader running or due next
    docIn,      \* TRUE while the loader at docStage is running
    docItem,    \* library children the running loop has gone through
    docColl,    \* Collada: the collections, library -> children appended (by document position)
    docPending, \* Collada: the lazy collections, library -> children registered with add_node
    docRefs,    \* the <library_nodes> of the input: child -> child it instantiates (0: none)
    docAt,      \* _loadNodes: "first" pass, "retry" pass, or "check" (the while test)
    docTried,   \* _loadNodes: tried_loading
    docNextTried, \* _loadNodes: next_tried
    docSucceeded, \* _loadNodes: succeeded
    docScene,   \* Collada: self.scene (0: None, else the position of the scene)
    docRaised,  \* the exception the running or last call let out ("" when none)
    docCalls,   \* load_scenes calls so far
    docLog,     \* history: <<call, "start" | "end", loader>> in order (call 0 is __init__)
    docDecoded, \* history: <<library, child, outcome>> for each call of a decoder, in order,
                \* and <<"defaultScene", url, outcome>> for each url _loadDefaultScene read
    docAccess,  \* the caller's access to a lazy item, <<library, child, outcome>> (<<>>: none yet)
    rsScope,    \* Primitive._getInputsFromList: localscope, key -> source or bundle
    rsInputs,   \* Primitive._getInputsFromList: inputs, the raw tuples
    rsResult,   \* Primitive._getInputsFromList: [res, table, expanded] of the last call
    svBackend,  \* save: the xml library in use, "lxml" or "etree" (xml.etree.ElementTree)
    svRoot,     \* save: the children of the root element, in order: [tag, kids]
    svColl,     \* save: the collections, kind -> the objects in it, in order
    svScene,    \* save: self.scene (0: None, else a scene object)
    svSceneRef, \* save: the scene the <scene> element references (0: none)
    svLast,     \* save: the last call, [op, res, created, root, ref] (the tree before it;
                \* op is "save" for the first save() of the document, "resave" for the next)
    arIn,       \* Collada(filename, zip_filename=...): [zip, names, explicit], the bytes read
    arLast      \* Collada(...): the outcome of reading the body, [res, filename, wellFormed]

ilVars == <<ilPool, ilSeq, ilIndex, ilLast>>

lzVars == <<lzPending, lzLoaded, lzObjects, lzOrder, lzDecodes, lzRegs, lzFirst,
            lzReturned, lzSince, lzLast>>

errVars == <<docMask, docErrors, docLast>>

loadVars == <<docNodeLibs, docPhase, docLazy, docStage, docIn, docItem, docColl, docPending,
              docRefs, docAt, docTried, docNextTried, docSucceeded, docScene, docRaised,
              docCalls, docLog>>

histVars == <<docDecoded, docAccess>>

rsVars == <<rsScope, rsInputs, rsResult>>

\* the variables of the components that document loading does not touch
svVars == <<svBackend, svRoot, svColl, svScene, svSceneRef, svLast>>

arVars == <<arIn, arLast>>

farVars == <<rsVars, svVars, arVars>>

docVars == <<errVars, loadVars, histVars, farVars>>

vars == <<ilVars, lzVars, docVars>>

(***************************************************************************)
(* Bounds and the universe of values                                       *)
(***************************************************************************)
\* identity values (the 'id' attribute of domain objects and of xml nodes)
Ids == {"a", "b", "c"}

\* how many distinct objects may carry the same id
MaxCopies == 2

\* longest IndexedList sequence explored
MaxLen == 3

\* a domain object: <<id, serial>>; two objects are the same reference
\* exactly when both components agree
Objs == Ids \X (1..MaxCopies)

\* one object per id
UniqueObjs == {o \in Objs : o[2] = 1}

\* getattr(obj, 'id')
IdOf(o) == o[1]

\* the empty dict
EmptyMap == [k \in {} |-> 0]

\* sequences over S of length 0..n
SeqsUpTo(S, n) == UNION {[1..k -> S] : k \in 0..n}

\* positions (0-based, python style; negative counts from the end) tried by callers
PosKeys == (0 - MaxLen - 1)..(MaxLen + 1)

(***************************************************************************)
(* IndexedList helpers                                                     *)
(***************************************************************************)
\* an _addindex that leaves an id that is indexed already alone
AddIndexKeepsFirst(idx, o) ==
    [k \in (DOMAIN idx) \cup {IdOf(o)} |-> IF k \in DOMAIN idx THEN idx[k] ELSE o]

\* IndexedList._addindex: _idx[getattr(obj, attr)] = obj, for attrs = ('id',)
AddIndex(idx, o) ==
    [k \in (DOMAIN idx) \cup {IdOf(o)} |-> IF k = IdOf(o) THEN o ELSE idx[k]]

\* IndexedList._delindex: del _idx[id], a missing key is ignored
DelIndex(idx, o) ==
    [k \in (DOMAIN idx) \ {IdOf(o)} |-> idx[k]]

RECURSIVE AddAll(_, _)
\* for obj in items: _addindex(obj)
AddAll(idx, items) ==
    IF items = <<>> THEN idx
    ELSE AddAll(AddIndex(idx, Head(items)), Tail(items))

\* list.index(self, obj): 1-based position of the first occurrence, 0 for ValueError
ListIndex(s, o) ==
    IF \E i \in 1..Len(s) : s[i] = o
    THEN CHOOSE i \in 1..Len(s) : s[i] = o /\ \A j \in 1..(i - 1) : s[j] # o
    ELSE 0

\* the list with the element at 1-based position p removed
RemoveAt(s, p) == SubSeq(s, 1, p - 1) \o SubSeq(s, p + 1, Len(s))

\* list.insert(self, ind, obj) with ind a valid 1-based position: obj lands before s[p]
InsertAt(s, p, o) == SubSeq(s, 1, p - 1) \o <<o>> \o SubSeq(s, p, Len(s))

\* the try/except that turns a key into (position, object):
\*     try: obj = list.__getitem__(self, ind)
\*     except (IndexError, TypeError): obj = self._index[ind]; ind = list.index(self, obj)
\* for an integer key i (python position).  An out-of-range integer raises
\* IndexError, and the fallback self._index[i] raises KeyError (keys are ids).
ResolvePos(s, idx, i) ==
    IF 0 - Len(s) <= i /\ i < Len(s)
    THEN LET p == (IF i < 0 THEN Len(s) + i ELSE i) + 1
         IN  [res |-> "ok", pos |-> p, obj |-> s[p]]
    ELSE [res |-> "KeyError", pos |-> 0, obj |-> <<"a", 0>>]

\* the same try/except for a string key k: list.__getitem__ raises TypeError,
\* then self._index[k] (KeyError when absent) and list.index (ValueError when
\* the indexed object is not in the list)
ResolveId(s, idx, k) ==
    IF k \notin DOMAIN idx
    THEN [res |-> "KeyError", pos |-> 0, obj |-> <<"a", 0>>]
    ELSE IF ListIndex(s, idx[k]) = 0
         THEN [res |-> "ValueError", pos |-> 0, obj |-> idx[k]]
         ELSE [res |-> "ok", pos |-> ListIndex(s, idx[k]), obj |-> idx[k]]

\* the keys a caller may pass, resolved: every position and every id
Resolved(s, idx) ==
    {ResolvePos(s, idx, i) : i \in PosKeys} \cup {ResolveId(s, idx, k) : k \in Ids}

\* no object
NoObj == <<"a", 0>>

\* the argument a caller passes where a key is expected: a position, an id or
\* an object
PosArg(i) == [kind |-> "pos", pos |-> i, id |-> "a", obj |-> NoObj]
IdArg(k) == [kind |-> "id", pos |-> 0, id |-> k, obj |-> NoObj]
ObjArg(o) == [kind |-> "obj", pos |-> 0, id |-> "a", obj |-> o]
PosArgs == {PosArg(i) : i \in PosKeys}
IdArgs == {IdArg(k) : k \in Ids}

\* the try/except of insert, pop, __delitem__ and __setitem__ for a key
Resolve(s, idx, key) ==
    IF key.kind = "pos" THEN ResolvePos(s, idx, key.pos) ELSE ResolveId(s, idx, key.id)

\* the record of a call: without arguments kept, and with them
ILDone(op, res) == [op |-> op, res |-> res, key |-> PosArg(0), new |-> NoObj, pos |-> 0]
ILCalled(op, res, key, new, pos) ==
    [op |-> op, res |-> res, key |-> key, new |-> new, pos |-> pos]

(***************************************************************************)
(* IndexedList operations                                                  *)
(***************************************************************************)
\* IndexedList.__init__(items, ('id',)), as run by Collada._setIndexedList
ILConstruct ==
    \E items \in SeqsUpTo(ilPool, MaxLen) :
        /\ ilSeq' = items
        /\ ilIndex' = AddAll(EmptyMap, items)
        /\ ilLast' = ILDone("construct", "ok")
        /\ UNCHANGED <<ilPool, lzVars, docVars>>

\* IndexedList.append
ILAppend ==
    \E o \in ilPool :
        /\ Len(ilSeq) < MaxLen
        /\ ilIndex' = AddIndex(ilIndex, o)
        /\ ilSeq' = Append(ilSeq, o)
        /\ ilLast' = ILCalled("append", "ok", PosArg(0), o, 0)
        /\ UNCHANGED <<ilPool, lzVars, docVars>>

\* IndexedList.extend: newList = list(newList) is a plain list, so the
\* isinstance(newList, IndexedList) branch is never taken
ILExtend ==
    \E items \in SeqsUpTo(ilPool, 2) :
        /\ Len(ilSeq) + Len(items) <= MaxLen
        /\ ilIndex' = AddAll(ilIndex, items)
        /\ ilSeq' = ilSeq \o items
        /\ ilLast' = ILDone("extend", "ok")
        /\ UNCHANGED <<ilPool, lzVars, docVars>>

\* IndexedList.insert(ind, new_obj)
ILInsert ==
    \E o \in ilPool, key \in PosArgs \cup IdArgs : LET r == Resolve(ilSeq, ilIndex, key) IN
        /\ Len(ilSeq) < MaxLen
        /\ IF r.res = "ok"
           THEN /\ ilIndex' = AddIndex(ilIndex, o)
                /\ ilSeq' = InsertAt(ilSeq, r.pos, o)
           ELSE UNCHANGED <<ilIndex, ilSeq>>
        /\ ilLast' = ILCalled("insert", r.res, key, o, r.pos)
        /\ UNCHANGED <<ilPool, lzVars, docVars>>

\* IndexedList.pop(ind)
ILPop ==
    \E r \in Resolved(ilSeq, ilIndex) :
        /\ IF r.res = "ok"
           THEN /\ ilIndex' = DelIndex(ilIndex, r.obj)
                /\ ilSeq' = RemoveAt(ilSeq, r.pos)
           ELSE UNCHANGED <<ilIndex, ilSeq>>
        /\ ilLast' = ILDone("pop", r.res)
        /\ UNCHANGED <<ilPool, lzVars, docVars>>

\* IndexedList.__delitem__(ind)
ILDelItem ==
    \E r \in Resolved(ilSeq, ilIndex) :
        /\ IF r.res = "ok"
           THEN /\ ilIndex' = DelIndex(ilIndex, r.obj)
                /\ ilSeq' = RemoveAt(ilSeq, r.pos)
           ELSE UNCHANGED <<ilIndex, ilSeq>>
        /\ ilLast' = ILDone("delitem", r.res)
        /\ UNCHANGED <<ilPool, lzVars, docVars>>

\* list.__setitem__(ind, new_obj), called on the class without self: the
\* integer ind is taken for the receiver and the call raises TypeError
\* ("descriptor '__setitem__' requires a 'list' object"); the list is untouched
UnboundListSetItem(s, p, o) == [res |-> "TypeError", seq |-> s]

\* IndexedList.__setitem__(ind, new_obj)
ILSetItem ==
    \E o \in ilPool, key \in PosArgs \cup IdArgs : LET r == Resolve(ilSeq, ilIndex, key) IN
        /\ IF r.res = "ok"
           THEN LET w == UnboundListSetItem(ilSeq, r.pos, o)
                IN  /\ ilIndex' = AddIndex(DelIndex(ilIndex, r.obj), o)
                    /\ ilSeq' = w.seq
                    /\ ilLast' = ILCalled("setitem", w.res, key, o, r.pos)
           ELSE /\ UNCHANGED <<ilIndex, ilSeq>>
                /\ ilLast' = ILCalled("setitem", r.res, key, o, r.pos)
        /\ UNCHANGED <<ilPool, lzVars, docVars>>

\* list.remove(self, ind) where ind is the integer position found before:
\* list.remove takes a value, and no element of a list of domain objects
\* equals an integer, so it raises ValueError and the list is untouched
ListRemoveValue(s, p) == [res |-> "ValueError", seq |-> s]

\* the first half of IndexedList.remove(ind_or_obj) for an id argument:
\*     try: obj = self._index[k]; ind = list.index(self, obj)
\*     except KeyError: ind = list.index(self, k)      (ValueError: k is no element)
RemoveFindId(s, idx, k) ==
    IF k \notin DOMAIN idx
    THEN [res |-> "ValueError", pos |-> 0, obj |-> <<"a", 0>>]
    ELSE ResolveId(s, idx, k)

\* the same for an object argument: self._index[obj] raises KeyError (keys are
\* ids), then ind = list.index(self, obj); obj = list.__getitem__(self, ind)
RemoveFindObj(s, idx, o) ==
    IF ListIndex(s, o) = 0
    THEN [res |-> "ValueError", pos |-> 0, obj |-> o]
    ELSE [res |-> "ok", pos |-> ListIndex(s, o), obj |-> o]

\* IndexedList.remove(ind_or_obj)
ILRemove ==
    \E key \in IdArgs \cup {ObjArg(o) : o \in ilPool} :
        LET r == IF key.kind = "id" THEN RemoveFindId(ilSeq, ilIndex, key.id)
                 ELSE RemoveFindObj(ilSeq, ilIndex, key.obj)
        IN
        /\ IF r.res = "ok"
           THEN LET w == ListRemoveValue(ilSeq, r.pos)
                IN  /\ ilIndex' = DelIndex(ilIndex, r.obj)
                    /\ ilSeq' = w.seq
                    /\ ilLast' = ILCalled("remove", w.res, key, NoObj, r.pos)
           ELSE /\ UNCHANGED <<ilIndex, ilSeq>>
                /\ ilLast' = ILCalled("remove", r.res, key, NoObj, r.pos)
        /\ UNCHANGED <<ilPool, lzVars, docVars>>

\* IndexedList.__getitem__(ind) for a string key: self._index[ind], KeyError re-raised
GetItemById(idx, k) ==
    IF k \in DOMAIN idx THEN [res |-> "ok", obj |-> idx[k]]
    ELSE [res |-> "KeyError", obj |-> <<"a", 0>>]

(***************************************************************************)
(* LazyIndexedList                                                         *)
(***************************************************************************)
\* the ids of the lazily loaded library
LzIds == {"a", "b"}

\* longest self._order explored
MaxOrder == 2

\* xmlnode.get('id') of a node without the attribute
NoId == ""

\* the value None
NoneVal == <<"", 0>>

\* an xml node: <<id, kind>>; the injected decoder raises on a "bad" node
LzNodes == (LzIds \cup {NoId}) \X {"good", "bad"}

\* objects built by callers and handed to append, one per id
LzObjs == LzIds \X {1}

\* self._loader_func(self._collada, {}, node) returns a new object on each
\* call: the n-th decode of id k yields <<k, -n>>
Decoded(k, n) == <<k, 0 - n>>

\* the dict d without key k
DictDel(d, k) == [x \in (DOMAIN d) \ {k} |-> d[x]]

\* the dict d with d[k] = v
DictPut(d, k, v) == [x \in (DOMAIN d) \cup {k} |-> IF x = k THEN v ELSE d[x]]

\* the elements of a sequence
Range(s) == {s[i] : i \in 1..Len(s)}

\* the collection's fields, as one value
LzState == [pending |-> lzPending, loaded |-> lzLoaded, objects |-> lzObjects,
            decodes |-> lzDecodes]

\* a plausible slip in _load_item: the node is read with [] instead of pop(),
\* so a node whose decode raised stays pending
LoadItemKeepsNode(L, k) ==
    IF k \in DOMAIN L.loaded
    THEN [st |-> L, res |-> "ok", val |-> L.loaded[k]]
    ELSE IF k \in DOMAIN L.pending
         THEN LET n == L.decodes[k] + 1
              IN  IF L.pending[k][2] = "bad"
                  THEN [st |-> [L EXCEPT !.decodes[k] = n],
                        res |-> "DaeError", val |-> NoneVal]
                  ELSE [st |-> [L EXCEPT !.decodes[k] = n,
                                         !.loaded = DictPut(L.loaded, k, Decoded(k, n)),
                                         !.objects = L.objects \cup {Decoded(k, n)}],
                        res |-> "ok", val |-> Decoded(k, n)]
         ELSE [st |-> L, res |-> "ok", val |-> NoneVal]

\* LazyIndexedList._load_item(obj_id): the new fields, the outcome and the value returned
LoadItem(L, k) ==
    IF k \in DOMAIN L.loaded
    THEN [st |-> L, res |-> "ok", val |-> L.loaded[k]]
    ELSE IF k \in DOMAIN L.pending
         THEN LET n == L.decodes[k] + 1
                  popped == DictDel(L.pending, k)
              IN  IF L.pending[k][2] = "bad"
                  THEN [st |-> [L EXCEPT !.pending = popped, !.decodes[k] = n],
                        res |-> "DaeError", val |-> NoneVal]
                  ELSE [st |-> [L EXCEPT !.pending = popped, !.decodes[k] = n,
                                         !.loaded = DictPut(L.loaded, k, Decoded(k, n)),
                                         !.objects = L.objects \cup {Decoded(k, n)}],
                        res |-> "ok", val |-> Decoded(k, n)]
         ELSE [st |-> L, res |-> "ok", val |-> NoneVal]

\* the history of returned objects after a materialization of id k returned v
Noted(h, k, v) == IF v = NoneVal THEN h ELSE [h EXCEPT ![k] = h[k] \cup {v}]

\* the fields and the two histories after one materialization call
LzCommit(r, k, opname, key) ==
    /\ lzPending' = r.st.pending
    /\ lzLoaded' = r.st.loaded
    /\ lzObjects' = r.st.objects
    /\ lzDecodes' = r.st.decodes
    /\ lzReturned' = (IF r.res = "ok" THEN Noted(lzReturned, k, r.val) ELSE lzReturned)
    /\ lzSince' = (IF r.res = "ok" THEN Noted(lzSince, k, r.val) ELSE lzSince)
    /\ lzLast' = [op |-> opname, res |-> r.res, val |-> r.val, out |-> <<>>, key |-> key]

\* LazyIndexedList.add_node(xmlnode)
LZAddNode ==
    \E node \in LzNodes :
        /\ Len(lzOrder) < MaxOrder
        /\ IF node[1] # NoId
           THEN /\ lzPending' = DictPut(lzPending, node[1], node)
                /\ lzOrder' = Append(lzOrder, node[1])
                /\ lzRegs' = [lzRegs EXCEPT ![node[1]] = @ + 1]
                /\ lzFirst' = (IF node[1] \in Range(lzFirst) THEN lzFirst
                               ELSE Append(lzFirst, node[1]))
           ELSE UNCHANGED <<lzPending, lzOrder, lzRegs, lzFirst>>
        /\ lzLast' = [op |-> "add_node", res |-> "ok", val |-> NoneVal, out |-> <<>>, key |-> 0]
        /\ UNCHANGED <<lzLoaded, lzObjects, lzDecodes, lzReturned, lzSince, ilVars, docVars>>

\* the body of LazyIndexedList.append(obj) on the fields [loaded, objects, order]
AppendOne(A, o) ==
    [loaded |-> DictPut(A.loaded, IdOf(o), o),
     objects |-> A.objects \cup {o},
     order |-> IF IdOf(o) \in Range(A.order) THEN A.order ELSE Append(A.order, IdOf(o))]

RECURSIVE AppendEach(_, _)
\* LazyIndexedList.extend(items): for item in items: self.append(item)
AppendEach(A, items) ==
    IF items = <<>> THEN A
    ELSE AppendEach(AppendOne(A, Head(items)), Tail(items))

RECURSIVE FirstSeen(_, _)
\* the first-insertion history after the ids of items were inserted in turn
FirstSeen(f, items) ==
    IF items = <<>> THEN f
    ELSE FirstSeen(IF IdOf(Head(items)) \in Range(f) THEN f
                   ELSE Append(f, IdOf(Head(items))), Tail(items))

\* the effect of appending items (one for append, several for extend)
LzAppendAll(items, opname) ==
    LET A == AppendEach([loaded |-> lzLoaded, objects |-> lzObjects, order |-> lzOrder],
                        items)
    IN  /\ Len(A.order) <= MaxOrder
        /\ lzLoaded' = A.loaded
        /\ lzObjects' = A.objects
        /\ lzOrder' = A.order
        /\ lzFirst' = FirstSeen(lzFirst, items)
        /\ lzSince' = [k \in LzIds |->
                          IF \E i \in 1..Len(items) : IdOf(items[i]) = k
                          THEN {} ELSE lzSince[k]]
        /\ lzLast' = [op |-> opname, res |-> "ok", val |-> NoneVal, out |-> <<>>, key |-> 0]
        /\ UNCHANGED <<lzPending, lzDecodes, lzRegs, lzReturned, ilVars, docVars>>

\* LazyIndexedList.append(obj): a caller's own object, or one got from the collection
LZAppend ==
    \E o \in LzObjs \cup lzObjects : LzAppendAll(<<o>>, "append")

\* LazyIndexedList.extend(items)
LZExtend ==
    \E items \in [1..2 -> LzObjs] : LzAppendAll(items, "extend")

\* LazyIndexedList.__getitem__(key) for a numeric key
LZGetPos ==
    \E i \in (0 - MaxOrder - 1)..MaxOrder :
        LET key == IF i < 0 THEN Len(lzOrder) + i ELSE i
        IN  /\ IF key < 0 \/ key >= Len(lzOrder)
               THEN /\ lzLast' = [op |-> "getpos", res |-> "IndexError",
                                  val |-> NoneVal, out |-> <<>>, key |-> i]
                    /\ UNCHANGED <<lzPending, lzLoaded, lzObjects, lzDecodes,
                                   lzReturned, lzSince>>
               ELSE LzCommit(LoadItem(LzState, lzOrder[key + 1]), lzOrder[key + 1], "getpos", i)
            /\ UNCHANGED <<lzOrder, lzRegs, lzFirst, ilVars, docVars>>

\* LazyIndexedList.get(key, None), also reached by __getitem__(key) for a string key
LZGet ==
    \E k \in LzIds :
        /\ IF k \in DOMAIN lzLoaded
           THEN LzCommit([st |-> LzState, res |-> "ok", val |-> lzLoaded[k]], k, "get", 0)
           ELSE IF k \in DOMAIN lzPending
                THEN LzCommit(LoadItem(LzState, k), k, "get", 0)
                ELSE LzCommit([st |-> LzState, res |-> "ok", val |-> NoneVal], k, "get", 0)
        /\ UNCHANGED <<lzOrder, lzRegs, lzFirst, ilVars, docVars>>

RECURSIVE IterRun(_, _, _, _)
\* LazyIndexedList.__iter__ run to the end (list(collection)): _load_item on
\* each id of self._order in turn; a decoder error ends the iteration there
IterRun(L, order, i, out) ==
    IF i > Len(order) THEN [st |-> L, res |-> "ok", out |-> out]
    ELSE LET r == LoadItem(L, order[i])
         IN  IF r.res = "ok" THEN IterRun(r.st, order, i + 1, Append(out, r.val))
             ELSE [st |-> r.st, res |-> r.res, out |-> out]

RECURSIVE NotedAll(_, _, _)
\* the history after the iteration yielded out[i] for ids order[i]
NotedAll(h, order, out) ==
    IF out = <<>> THEN h
    ELSE NotedAll(Noted(h, Head(order), Head(out)), Tail(order), Tail(out))

\* a full iteration over the collection
LZIterate ==
    LET r == IterRun(LzState, lzOrder, 1, <<>>)
    IN  /\ lzPending' = r.st.pending
        /\ lzLoaded' = r.st.loaded
        /\ lzObjects' = r.st.objects
        /\ lzDecodes' = r.st.decodes
        /\ lzReturned' = NotedAll(lzReturned, lzOrder, r.out)
        /\ lzSince' = NotedAll(lzSince, lzOrder, r.out)
        /\ lzLast' = [op |-> "iter", res |-> r.res, val |-> NoneVal, out |-> r.out, key |-> 0]
        /\ UNCHANGED <<lzOrder, lzRegs, lzFirst, ilVars, docVars>>

\* LazyIndexedList.__contains__(item): a string is looked up in both dicts,
\* anything else in self._loaded_objects; nothing is decoded
LzContainsId(k) == k \in DOMAIN lzLoaded \/ k \in DOMAIN lzPending
LzContainsObj(o) == o \in lzObjects

LZContains ==
    \E b \in {LzContainsId(k) : k \in LzIds} \cup {LzContainsObj(o) : o \in LzObjs} :
        /\ lzLast' = [op |-> "contains", res |-> IF b THEN "True" ELSE "False",
                      val |-> NoneVal, out |-> <<>>, key |-> 0]
        /\ UNCHANGED <<lzPending, lzLoaded, lzObjects, lzOrder, lzDecodes, lzRegs,
                       lzFirst, lzReturned, lzSince, ilVars, docVars>>

\* LazyIndexedList.__len__
LzLen == Len(lzOrder)

\* LazyIndexedList.__init__
LZInitial ==
    /\ lzPending = EmptyMap
    /\ lzLoaded = EmptyMap
    /\ lzObjects = {}
    /\ lzOrder = <<>>
    /\ lzDecodes = [k \in LzIds |-> 0]
    /\ lzRegs = [k \in LzIds |-> 0]
    /\ lzFirst = <<>>
    /\ lzReturned = [k \in LzIds |-> {}]
    /\ lzSince = [k \in LzIds |-> {}]
    /\ lzLast = [op |-> "init", res |-> "ok", val |-> NoneVal, out |-> <<>>, key |-> 0]

LZNext ==
    \/ LZAddNode
    \/ LZAppend
    \/ LZExtend
    \/ LZGetPos
    \/ LZGet
    \/ LZIterate
    \/ LZContains


(***************************************************************************)
(* Collada: the error policy                                               *)
(***************************************************************************)
\* the error kinds of collada.common; every kind derives from DaeError
Kinds == {"DaeError", "DaeIncompleteError", "DaeBrokenRefError", "DaeMalformedError",
          "DaeUnsupportedError", "DaeSaveValidationError"}

\* the kinds decoders and loaders raise in this model
RaisedKinds == {"DaeBrokenRefError", "DaeMalformedError", "DaeUnsupportedError"}

\* the python value None, as an element of an argument tuple or of the mask
PyNone == "None"

\* the argument tuples callers pass to ignoreErrors(*args)
IgnoreArgs == {<<PyNone>>, <<"DaeError">>, <<"DaeBrokenRefError">>,
               <<"DaeMalformedError">>, <<"DaeBrokenRefError", "DaeUnsupportedError">>}

\* longest self.maskedErrors explored
MaxMask == 2

\* longest self.errors explored
MaxErrors == 2

\* isinstance(error, mask) for a mask that is a kind
IsInstance(e, m) == m = e \/ m = "DaeError"

RECURSIVE AnyMasked(_, _)
\* any(isinstance(error, mask) for mask in self.maskedErrors), evaluated left
\* to right: "suppressed" when a mask matches, "raise" when none does, and
\* "TypeError" when isinstance meets a mask that is None before any match
AnyMasked(mask, e) ==
    IF mask = <<>> THEN "raise"
    ELSE IF Head(mask) = PyNone THEN "TypeError"
    ELSE IF IsInstance(e, Head(mask)) THEN "suppressed"
    ELSE AnyMasked(Tail(mask), e)

\* handleError without the raise: every error is recorded and swallowed
HandleErrorSwallows(mask, errors, e) ==
    [errors |-> Append(errors, e), res |-> "suppressed"]

\* Collada.handleError(error): the new error list and the outcome for the caller
HandleError(mask, errors, e) ==
    [errors |-> Append(errors, e), res |-> AnyMasked(mask, e)]

\* the test `args == [None]` of ignoreErrors: args is the tuple of positional
\* arguments, and a tuple never equals a list
ArgsAreListOfNone(args) == FALSE

\* Collada.ignoreErrors(*args): the new mask
IgnoreErrors(mask, args) ==
    IF ArgsAreListOfNone(args) THEN <<>> ELSE mask \o args

\* a call of ignoreErrors by the user of the document
DocIgnoreErrors ==
    \E args \in IgnoreArgs :
        /\ Len(docMask) + Len(args) <= MaxMask
        /\ docMask' = IgnoreErrors(docMask, args)
        /\ docLast' = [op |-> "ignoreErrors", args |-> args, err |-> "", res |-> "ok",
                       mask |-> docMask, n |-> Len(docErrors)]
        /\ docPhase = "ready"
        /\ UNCHANGED <<docErrors, loadVars, histVars, ilVars, lzVars, farVars>>

\* a call of handleError from the except block of a loader or resolver
DocHandleError ==
    \E e \in RaisedKinds :
        /\ Len(docErrors) < MaxErrors
        /\ docErrors' = HandleError(docMask, docErrors, e).errors
        /\ docLast' = [op |-> "handleError", args |-> <<>>, err |-> e,
                       res |-> HandleError(docMask, docErrors, e).res,
                       mask |-> docMask, n |-> Len(docErrors)]
        /\ docPhase = "ready"
        /\ UNCHANGED <<docMask, loadVars, histVars, ilVars, lzVars, farVars>>

(***************************************************************************)
(* Primitive._getInputsFromList: the input resolver                        *)
(***************************************************************************)
\* raw input tuples per call
MaxInputs == 2

\* Primitive._KNOWN_SEMANTICS
KnownSemantics == {"VERTEX", "NORMAL", "TEXCOORD", "TEXTANGENT", "TEXBINORMAL", "COLOR",
                   "TANGENT", "BINORMAL"}

\* strings are sequences of characters; the ids used as scope keys
KeyP == <<"p">>
KeyN == <<"n">>
KeyV == <<"v">>

\* a data source object: which object it is and its id attribute
Source(name, id) == [kind |-> "source", name |-> name, id |-> id]
SourceA == Source("A", KeyP)
SourceB == Source("B", KeyN)

\* a dict mapping semantics to sources (the <vertices> bundle), in insertion order
Bundle(items) == [kind |-> "dict", items |-> items]

\* the bundles explored: the empty dict, one entry, two entries in either order
Bundles ==
    {Bundle(<<>>),
     Bundle(<<<<"POSITION", SourceA>>>>),
     Bundle(<<<<"NORMAL", SourceB>>>>),
     Bundle(<<<<"POSITION", SourceA>>, <<"NORMAL", SourceB>>>>),
     Bundle(<<<<"NORMAL", SourceB>>, <<"POSITION", SourceA>>>>),
     Bundle(<<<<"POSITION", SourceA>>, <<"NORMAL", SourceA>>>>)}

\* the local scopes explored: "p" and "n" may hold a source, "v" a source or a bundle
Scopes ==
    LET at(k, vals) == {EmptyMap} \cup {[x \in {k} |-> v] : v \in vals}
    IN  {p @@ n @@ v : p \in at(KeyP, {SourceA}),
                       n \in at(KeyN, {SourceB}),
                       v \in at(KeyV, {SourceA} \cup Bundles)}

\* the raw tuples explored: (offset, semantic, source, set); the source strings
\* are '#p', '#n', '#v' and 'p' (no leading '#')
RawInputs ==
    {<<0, m, src, PyNone>> : m \in {"VERTEX", "NORMAL", "FOO"},
                             src \in {<<"#">> \o KeyP, <<"#">> \o KeyN, <<"#">> \o KeyV, KeyP}}

\* source[1:]
SourceKey(source) == IF source = <<>> THEN <<>> ELSE Tail(source)

\* localscope.get(key)
ScopeGet(scope, key) == IF key \in DOMAIN scope THEN scope[key] ELSE [kind |-> "none"]

\* isinstance(vertex_source, dict)
IsDict(entry) == entry.kind = "dict"

\* the expansion with the POSITION entry left under its own semantic
ExpandBundleKeepsPosition(input, bundle) ==
    [k \in 1..Len(bundle.items) |->
        <<input[1], bundle.items[k][1], <<"#">> \o bundle.items[k][2].id, input[4]>>]

\* the tuples one VERTEX input over a bundle is replaced by (to_append)
ExpandBundle(input, bundle) ==
    [k \in 1..Len(bundle.items) |->
        <<input[1],
          IF bundle.items[k][1] = "POSITION" THEN "VERTEX" ELSE bundle.items[k][1],
          <<"#">> \o bundle.items[k][2].id,
          input[4]>>]

RECURSIVE Dereference(_, _)
\* the first loop: [new |-> new_inputs, app |-> to_append]
Dereference(scope, inputs) ==
    IF inputs = <<>> THEN [new |-> <<>>, app |-> <<>>]
    ELSE LET input == Head(inputs)
             entry == ScopeGet(scope, SourceKey(input[3]))
             rest == Dereference(scope, Tail(inputs))
         IN  IF input[2] = "VERTEX" /\ IsDict(entry)
             THEN [new |-> rest.new, app |-> ExpandBundle(input, entry) \o rest.app]
             ELSE IF ~IsDict(entry)
                  THEN [new |-> <<input>> \o rest.new, app |-> rest.app]
                  ELSE rest

\* new_inputs after new_inputs.extend(to_append)
NewInputs(scope, inputs) ==
    LET d == Dereference(scope, inputs) IN d.new \o d.app

\* the append without `if semantic not in all_inputs: all_inputs[semantic] = []`,
\* a tuple of a semantic without bucket being left out
AddBindingKnownOnly(table, semantic, binding) ==
    IF semantic \in DOMAIN table THEN [table EXCEPT ![semantic] = Append(@, binding)]
    ELSE table

\* all_inputs[semantic].append(input_tuple), creating the bucket when missing
AddBinding(table, semantic, binding) ==
    LET t == IF semantic \in DOMAIN table THEN table ELSE table @@ [m \in {semantic} |-> <<>>]
    IN  [t EXCEPT ![semantic] = Append(@, binding)]

\* one round of the second loop on st = [res, table, errors]: validate the
\* source string, look it up, and file the 5-tuple under its semantic; an
\* unknown semantic goes through handleError first
BindInput(scope, mask, st, input) ==
    LET source == input[3]
        key == SourceKey(source)
    IN  IF Len(source) < 2 \/ source[1] # "#"
        THEN [st EXCEPT !.res = "DaeMalformedError"]
        ELSE IF key \notin DOMAIN scope
        THEN [st EXCEPT !.res = "DaeBrokenRefError"]
        ELSE LET binding == <<input[1], input[2], source, input[4], scope[key]>>
                 h == HandleError(mask, st.errors, "DaeUnsupportedError")
             IN  IF input[2] \in KnownSemantics
                 THEN [st EXCEPT !.table = AddBinding(@, input[2], binding)]
                 ELSE IF h.res = "suppressed"
                 THEN [res |-> "ok", errors |-> h.errors,
                       table |-> AddBinding(st.table, input[2], binding)]
                 ELSE [res |-> IF h.res = "raise" THEN "DaeUnsupportedError" ELSE "TypeError",
                       errors |-> h.errors, table |-> st.table]

RECURSIVE BindAll(_, _, _, _)
\* the second loop, left at the first exception
BindAll(scope, mask, st, inputs) ==
    IF inputs = <<>> \/ st.res # "ok" THEN st
    ELSE BindAll(scope, mask, BindInput(scope, mask, st, Head(inputs)), Tail(inputs))

\* Primitive._getInputsFromList(collada, localscope, inputs): the table
\* returned or the exception raised, and collada.errors afterwards
GetInputsFromList(scope, mask, errors, inputs) ==
    BindAll(scope, mask,
            [res |-> "ok", errors |-> errors, table |-> [m \in KnownSemantics |-> <<>>]],
            NewInputs(scope, inputs))

\* the ignore lists of the documents whose primitives are resolved
ResolverIgnoreLists == {<<>>, <<"DaeUnsupportedError">>}

\* a decoder calls _getInputsFromList with the inputs of a primitive
RSResolve ==
    \E inputs \in SeqsUpTo(RawInputs, MaxInputs) :
        LET r == GetInputsFromList(rsScope, docMask, docErrors, inputs)
        IN  /\ rsResult.res = "none"
            /\ rsInputs' = inputs
            /\ rsResult' = [res |-> r.res,
                            table |-> IF r.res = "ok" THEN r.table ELSE EmptyMap,
                            expanded |-> NewInputs(rsScope, inputs)]
            /\ docErrors' = r.errors
            /\ UNCHANGED <<docMask, docLast, loadVars, histVars, rsScope, svVars, arVars, ilVars, lzVars>>

\* no resolver call has been made
RSInitial ==
    /\ rsScope = EmptyMap
    /\ rsInputs = <<>>
    /\ rsResult = [res |-> "none", table |-> EmptyMap, expanded |-> <<>>]

(***************************************************************************)
(* Collada.save: collections -> tree                                       *)
(***************************************************************************)
\* objects a collection of the explored documents may hold
MaxMembers == 3

\* the ten collections of a document
AllKinds == {"geometries", "controllers", "animations", "lights", "cameras", "images",
             "effects", "materials", "nodes", "scenes"}

\* the container tag of each kind
LibraryTag == [k \in AllKinds |->
    CASE k = "geometries" -> "library_geometries"
      [] k = "controllers" -> "library_controllers"
      [] k = "animations" -> "library_animations"
      [] k = "lights" -> "library_lights"
      [] k = "cameras" -> "library_cameras"
      [] k = "images" -> "library_images"
      [] k = "effects" -> "library_effects"
      [] k = "materials" -> "library_materials"
      [] k = "nodes" -> "library_nodes"
      [] k = "scenes" -> "library_visual_scenes"]

\* the list `libraries` of save()
SaveLibraries == <<"geometries", "controllers", "lights", "cameras", "images", "effects",
                   "materials", "nodes", "scenes">>

\* the kinds the explored documents have objects of
SvKinds == {"geometries", "animations", "scenes"}

\* the kinds whose collections the explored programs change
SvChanged == {"geometries", "animations"}

\* the objects of a kind; an object stands for its xml node as well (o.xmlnode)
SvObjs(kind) == IF kind = "geometries" THEN 1..MaxMembers ELSE {1}

\* a Scene object that is never put into self.scenes
StrayScene == 2

\* a child of the root element: its tag and its children (the xml nodes of objects)
Elt(tag, kids) == [tag |-> tag, kids |-> kids]

\* the tags of the children of the root, in order
Tags(root) == [i \in 1..Len(root) |-> root[i].tag]

\* ElementTree.find(tag): the position of the first child with the tag (0: None)
Find(root, tag) ==
    IF tag \notin Range(Tags(root)) THEN 0
    ELSE CHOOSE j \in 1..Len(root) : root[j].tag = tag /\ \A h \in 1..(j - 1) : root[h].tag # tag

\* getroot().remove(getroot().find(tag))
RemoveFirst(root, tag) ==
    LET i == Find(root, tag)
    IN  IF i = 0 THEN root ELSE SubSeq(root, 1, i - 1) \o SubSeq(root, i + 1, Len(root))

\* getroot().insert(loc, x)
InsertAtLoc(seq, loc, x) ==
    LET at == IF loc > Len(seq) THEN Len(seq) ELSE loc
    IN  SubSeq(seq, 1, at) \o <<x>> \o SubSeq(seq, at + 1, Len(seq))

\* the root after the asset step: the first asset child removed, the asset
\* node of assetInfo inserted at position 0
SaveAsset(root) == <<Elt("asset", <<>>)>> \o RemoveFirst(root, "asset")

\* library_loc: one past the position of the last asset child (0 when none)
LibraryLoc(root) ==
    LET at == {i \in 1..Len(root) : root[i].tag = "asset"}
    IN  IF at = {} THEN 0 ELSE CHOOSE i \in at : \A j \in at : j <= i

\* node.append(o.xmlnode) on the container at position `at`.  lxml moves a
\* node that has a parent: it leaves the container it was in.  xml.etree only
\* extends the child list, so the node is then a child of both containers.
AppendNode(backend, root, at, o) ==
    [i \in 1..Len(root) |->
        IF i = at THEN [root[i] EXCEPT !.kids = Append(@, o)]
        ELSE IF backend = "lxml" /\ root[i].tag = root[at].tag
             THEN [root[i] EXCEPT !.kids = SelectSeq(@, LAMBDA n : n # o)]
             ELSE root[i]]

RECURSIVE AppendMissing(_, _, _, _)
\* for o in arr: if o.xmlnode not in node: node.append(o.xmlnode)
AppendMissing(backend, root, at, arr) ==
    IF arr = <<>> THEN root
    ELSE AppendMissing(backend,
                       IF Head(arr) \in Range(root[at].kids) THEN root
                       ELSE AppendNode(backend, root, at, Head(arr)),
                       at, Tail(arr))

RECURSIVE RemoveStaleFrom(_, _, _)
\* `for n in node: if n not in xmlnodes: node.remove(n)` over a list that is
\* changed while it is iterated (xml.etree): the iterator's index moves on by
\* one after a removal, so the child that slid into the freed slot is skipped
RemoveStaleFrom(kids, members, i) ==
    IF i > Len(kids) THEN kids
    ELSE IF kids[i] \in members THEN RemoveStaleFrom(kids, members, i + 1)
    ELSE RemoveStaleFrom(SubSeq(kids, 1, i - 1) \o SubSeq(kids, i + 1, Len(kids)),
                         members, i + 1)

\* the same loop under lxml, whose iterator holds the next sibling before the
\* body runs: every stale child is visited and removed
RemoveStale(backend, kids, members) ==
    IF backend = "etree" THEN RemoveStaleFrom(kids, members, 1)
    ELSE SelectSeq(kids, LAMBDA n : n \in members)

\* the body of the loop over `libraries` for one kind; st is the tree so far
\* and the containers created: [root, created]; loc is the position computed
\* before the loop.  find() yields the first container of the kind only.
SaveLibrary(st, loc, backend, coll, kind) ==
    LET name == LibraryTag[kind]
        arr == coll[kind]
        sync(t) ==
            LET at == Find(t.root, name)
                appended == AppendMissing(backend, t.root, at, arr)
            IN  [t EXCEPT !.root = [appended EXCEPT ![at].kids =
                                        RemoveStale(backend, @, Range(arr))]]
    IN  IF Find(st.root, name) = 0
        THEN IF arr = <<>> THEN st
             ELSE sync([root |-> InsertAtLoc(st.root, loc, Elt(name, <<>>)),
                        created |-> st.created \cup {name}])
        ELSE IF arr = <<>>
             THEN [st EXCEPT !.root = RemoveFirst(st.root, name)]
             ELSE sync(st)

RECURSIVE SaveAll(_, _, _, _, _)
\* for arr, name in libraries: ...
SaveAll(st, loc, backend, coll, libs) ==
    IF libs = <<>> THEN st
    ELSE SaveAll(SaveLibrary(st, loc, backend, coll, Head(libs)), loc, backend, coll,
                 Tail(libs))

\* the tree after the asset step and the loop over `libraries`
SavedTree(backend, root, coll) ==
    LET withAsset == SaveAsset(root)
    IN  SaveAll([root |-> withAsset, created |-> {}],
                LibraryLoc(withAsset), backend, coll, SaveLibraries)

\* the record of a call of save()
SaveCall(res, created) ==
    [op |-> IF svLast.op = "none" THEN "save" ELSE "resave", res |-> res, created |-> created,
     root |-> svRoot, ref |-> svSceneRef]

NoSaveCall ==
    [op |-> "none", res |-> "none", created |-> {}, root |-> <<>>, ref |-> 0]

\* Collada.save(): the tree is changed in place, so what was done before an
\* exception stays done.  The validator, when the document has one, accepts
\* or rejects the finished tree.  Two calls in succession are explored, after
\* any number of changes to the collections and the default scene.
SvSave ==
    LET st == SavedTree(svBackend, svRoot, svColl)
        hasScene == Find(st.root, "scene") # 0
    IN  /\ svLast.op \in {"none", "save"}
        /\ svRoot' = st.root
        /\ \/ /\ ~hasScene                          \* scenenode is None: clear() fails
              /\ svSceneRef' = svSceneRef
              /\ svLast' = SaveCall("AttributeError", st.created)
           \/ /\ hasScene
              /\ svScene # 0
              /\ svScene \notin Range(svColl["scenes"])
              /\ svSceneRef' = 0                    \* the scene node was cleared already
              /\ svLast' = SaveCall("DaeBrokenRefError", st.created)
           \/ /\ hasScene
              /\ svScene = 0 \/ svScene \in Range(svColl["scenes"])
              /\ svSceneRef' = svScene
              /\ \E res \in {"ok", "DaeSaveValidationError"} :
                    svLast' = SaveCall(res, st.created)
        /\ UNCHANGED <<svBackend, svColl, svScene>>
        /\ UNCHANGED <<errVars, loadVars, histVars, rsVars, arVars, ilVars, lzVars>>

\* doc.<kind>.append(o) for an object that is not in the collection
SvAppend ==
    \E kind \in SvChanged : \E o \in SvObjs(kind) :
        /\ svLast.op = "none"
        /\ o \notin Range(svColl[kind])
        /\ svColl' = [svColl EXCEPT ![kind] = Append(@, o)]
        /\ svLast' = svLast
        /\ UNCHANGED <<svBackend, svRoot, svScene, svSceneRef>>
        /\ UNCHANGED <<errVars, loadVars, histVars, rsVars, arVars, ilVars, lzVars>>

\* del doc.<kind>[i]
SvDelete ==
    \E kind \in SvChanged : \E i \in 1..Len(svColl[kind]) :
        /\ svLast.op = "none"
        /\ svColl' = [svColl EXCEPT ![kind] = SubSeq(@, 1, i - 1) \o SubSeq(@, i + 1, Len(@))]
        /\ svLast' = svLast
        /\ UNCHANGED <<svBackend, svRoot, svScene, svSceneRef>>
        /\ UNCHANGED <<errVars, loadVars, histVars, rsVars, arVars, ilVars, lzVars>>

\* doc.scene = None, a scene of the document, or a scene made elsewhere
SvSetScene ==
    \E v \in {0} \cup SvObjs("scenes") \cup {StrayScene} :
        /\ svLast.op = "none"
        /\ v # svScene
        /\ svScene' = v
        /\ svLast' = svLast
        /\ UNCHANGED <<svBackend, svRoot, svColl, svSceneRef>>
        /\ UNCHANGED <<errVars, loadVars, histVars, rsVars, arVars, ilVars, lzVars>>

SaveNext == SvSave \/ SvAppend \/ SvDelete \/ SvSetScene

RECURSIVE LoadTree(_, _)
\* a loader of __init__: findall(library tag), then the children of each
\* container in document order, every child decoded into the object of its id
LoadTree(root, tag) ==
    IF root = <<>> THEN <<>>
    ELSE (IF Head(root).tag = tag THEN Head(root).kids ELSE <<>>) \o LoadTree(Tail(root), tag)

\* the collections a (non-lazy) load of the tree yields
LoadedColl(root) == [k \in AllKinds |-> LoadTree(root, LibraryTag[k])]

\* the containers a document may have for a kind: none, one (with the first
\* n objects of the kind, n at least `least`), or two that share the objects
ContainersOf(kind, least) ==
    LET all == Cardinality(SvObjs(kind))
        run(a, b) == [i \in 1..(b - a + 1) |-> a + i - 1]
        tag == LibraryTag[kind]
    IN  {<<>>}
        \cup {<<Elt(tag, run(1, n))>> : n \in least..all}
        \cup {<<Elt(tag, run(1, p[1])), Elt(tag, run(p[1] + 1, p[2]))>> :
                  p \in {q \in (1..all) \X (1..all) : q[1] < q[2]}}

\* A document as a load leaves it: the collections are what the loaders
\* read from the tree, the <scene> element is present or not and the default
\* scene is the scene it references.
SVLoaded ==
    /\ svBackend \in {"lxml", "etree"}
    /\ \E a \in ContainersOf("animations", 1) : \E g \in ContainersOf("geometries", 0) :
          \E v \in ContainersOf("scenes", 1) : \E sceneElt \in BOOLEAN :
              /\ svRoot = <<Elt("asset", <<>>)>> \o a \o g \o v
                            \o (IF sceneElt THEN <<Elt("scene", <<>>)>> ELSE <<>>)
              /\ svScene \in {0} \cup (IF sceneElt THEN Range(LoadTree(v, "library_visual_scenes"))
                                       ELSE {})
    /\ svColl = LoadedColl(svRoot)
    /\ svSceneRef = svScene
    /\ svLast = NoSaveCall

\* the document of the specifications that never save
SVInitial ==
    /\ svBackend = "lxml"
    /\ svRoot = <<>>
    /\ svColl = [k \in {} |-> <<>>]
    /\ svScene = 0
    /\ svSceneRef = 0
    /\ svLast = NoSaveCall

(***************************************************************************)
(* Collada.__init__: reading the document body from a file or an archive   *)
(***************************************************************************)
\* most members an archive of the explored inputs lists
MaxNames == 3

\* what the constructor tests of a member name: whether its upper-case form
\* ends in ".DAE" and whether it contains "MACOSX"
NameKinds == {"dae", "macdae", "other"}

\* a member name: n tells names apart, kind is what the tests see of it
Name(n, kind) == [n |-> n, kind |-> kind]

\* the empty string
EmptyName == Name(0, "other")

\* None where a name is expected (zip_filename=None, no file name)
NoName == Name(0, PyNone)

\* a name no member of the explored archives has
AbsentName == Name(MaxNames + 1, "dae")

\* name.upper().endswith('.DAE')
EndsWithDae(name) == name.kind \in {"dae", "macdae"}

\* "MACOSX" in name
HasMacosx(name) == name.kind = "macdae"

\* zipfile.namelist() of the explored archives: the i-th member is Name(i, _)
NameLists ==
    UNION {{[i \in 1..len |-> Name(i, kinds[i])] : kinds \in [1..len -> NameKinds]} :
              len \in 0..MaxNames}

\* daefiles: the members whose name ends in .dae, in archive order
DaeFiles(names) == SelectSeq(names, EndsWithDae)

RECURSIVE SelectLast(_, _)
\* the loop over daefiles with every candidate replacing the one before
SelectLast(filename, daefiles) ==
    IF daefiles = <<>> THEN filename ELSE SelectLast(Head(daefiles), Tail(daefiles))

RECURSIVE SelectMember(_, _)
\* for name in daefiles: if not self.filename: self.filename = name
\*                       elif "MACOSX" in self.filename: self.filename = name
SelectMember(filename, daefiles) ==
    IF daefiles = <<>> THEN filename
    ELSE SelectMember(IF filename = EmptyName \/ HasMacosx(filename) THEN Head(daefiles)
                      ELSE filename,
                      Tail(daefiles))

\* self.filename after the archive branch
ArchiveFilename(names, explicit) ==
    IF explicit # NoName THEN explicit ELSE SelectMember(EmptyName, DaeFiles(names))

\* a failure of this stage handed to handleError, as the loaders do
OpenFailureHandled(mask, errors, e) == HandleError(mask, errors, e)

\* `raise DaeIncompleteError(...)` and `raise DaeMalformedError(...)`: the
\* error leaves the constructor; the mask and the error list play no part
OpenFailure(mask, errors, e) == [errors |-> errors, res |-> "raise"]

\* the constructor from the bytes read to the parsed tree.  The bytes are a
\* zip archive or not; the body handed to the parser is well-formed or not.
DocOpen ==
    \E wellFormed \in BOOLEAN :
        LET filename == IF arIn.zip THEN ArchiveFilename(arIn.names, arIn.explicit)
                        ELSE NoName
            found == filename # EmptyName /\ filename \in Range(arIn.names)
            failure == IF arIn.zip /\ ~found THEN "DaeIncompleteError"
                       ELSE IF ~wellFormed THEN "DaeMalformedError"
                       ELSE "none"
            r == IF failure = "none" THEN [errors |-> docErrors, res |-> "none"]
                 ELSE OpenFailure(docMask, docErrors, failure)
        IN  /\ arLast.res = "none"
            /\ arLast' = [res |-> IF r.res = "raise" THEN failure
                                  ELSE IF r.res = "TypeError" THEN "TypeError"
                                  ELSE "parsed",
                          filename |-> filename, wellFormed |-> wellFormed]
            /\ docErrors' = r.errors
            /\ UNCHANGED <<arIn, docMask, docLast, loadVars, histVars, rsVars, svVars,
                           ilVars, lzVars>>

OpenNext == DocOpen

\* no document has been opened
ARInitial ==
    /\ arIn = [zip |-> FALSE, names |-> <<>>, explicit |-> NoName]
    /\ arLast = [res |-> "none", filename |-> NoName, wellFormed |-> TRUE]

\* the state of the parts a specification does not exercise
FarInitial == RSInitial /\ SVInitial /\ ARInitial

\* the arguments of the constructor: the bytes of a plain file or of an
\* archive, zip_filename None, '', a member or a name the archive lacks
AROpening ==
    /\ \E names \in NameLists :
          \E explicit \in {NoName, EmptyName, AbsentName} \cup Range(names) :
              \E zip \in BOOLEAN :
                  /\ ~zip => names = <<>> /\ explicit = NoName
                  /\ arIn = [zip |-> zip, names |-> names, explicit |-> explicit]
    /\ arLast = [res |-> "none", filename |-> NoName, wellFormed |-> TRUE]

(***************************************************************************)
(* Collada: loading a document                                             *)
(***************************************************************************)
\* children per library of the input document
MaxItems == 2

\* decoder failures explored per document
MaxFailures == 1

\* children of <library_nodes> in the input document
MaxNodes == 3

\* the loaders in the order __init__ calls them
LoadOrder == <<"assetInfo", "images", "effects", "materials", "animations", "geometry",
               "controllers", "lights", "cameras", "nodes", "scenes", "defaultScene">>

\* __init__ with the test of self._lazy dropped
LastCtorStageAnyMode(lazy) == 12

\* index of the last loader __init__ runs: _loadCameras when lazy, else _loadDefaultScene
LastCtorStage(lazy) == IF lazy THEN 9 ELSE 12

\* index of the first loader load_scenes runs (_loadNodes)
FirstSceneStage == 10

\* the loaders that walk a library and decode each child in a try/except
PlainLibs == {"images", "effects", "materials", "animations", "geometry", "controllers",
              "lights", "cameras", "scenes"}

\* the libraries that become a LazyIndexedList in lazy mode
LazyLibs == {"animations", "geometry", "controllers"}

\* the collections of a document
Libs == PlainLibs \cup {"nodes"}

\* the DaeError kinds a decoder raises in this model
DecodeKinds == {"DaeBrokenRefError", "DaeMalformedError"}

\* the ignore lists callers pass to Collada(..., ignore=...)
IgnoreLists == {<<>>, <<"DaeError">>, <<"DaeBrokenRefError">>}

\* the id of a node that is in self.nodes before the library is read (a node of
\* an earlier library, or one the caller appended)
EarlierNode == 0 - 1

\* contents of <library_nodes>: child -> the child it instantiates, 0 for no
\* instance_node, EarlierNode, MaxNodes + 1 for an id no node of the document has
AllNodeLibs == [1..MaxNodes -> EarlierNode..(MaxNodes + 1)]

\* node libraries without references, with a forward chain, with one dangling reference
PlainNodeLibs == {[i \in 1..MaxNodes |-> 0],
                  [i \in 1..MaxNodes |-> IF i < MaxNodes THEN i + 1 ELSE 0],
                  [i \in 1..MaxNodes |-> IF i = 1 THEN MaxNodes + 1 ELSE 0]}

\* the <library_nodes> contents an input of the given family may have
NodeLibsOf(family) ==
    CASE family = "plain" -> PlainNodeLibs
      [] family = "any" -> AllNodeLibs
      [] OTHER -> {}

\* the loader running (or due next)
Loader == LoadOrder[docStage]

\* _loadGeometry and the like with the `if self._lazy:` branch never taken
RegistersOnlyNever(lazy, loader) == FALSE

\* `if self._lazy:` in _loadGeometry, _loadControllers, _loadAnimations: the
\* collection is a LazyIndexedList and children are handed to add_node
RegistersOnly(lazy, loader) == lazy /\ loader \in LazyLibs

\* what an exception leaving a loader does to the call in progress: __init__
\* raises and no document exists; load_scenes raises and the document stays
Abort(kind) ==
    /\ docPhase' = (IF docPhase = "init" THEN "failed" ELSE "ready")
    /\ docRaised' = kind
    /\ docIn' = FALSE
    /\ docStage' = 0
    /\ docItem' = 0

\* the exception that leaves handleError when it does not suppress e
Propagated(res, e) == IF res = "raise" THEN e ELSE "TypeError"

\* Collada.__init__(filename, ignore, lazy=...) up to the first loader
DocConstruct ==
    \E ignore \in IgnoreLists, lazy \in BOOLEAN :
        /\ docPhase = "new"
        /\ docPhase' = "init"
        /\ docLazy' = lazy
        /\ docMask' = IgnoreErrors(<<>>, ignore)
        /\ docStage' = 1
        /\ UNCHANGED <<docErrors, docLast, docNodeLibs, docIn, docItem, docColl, docPending,
                       docRefs, docAt, docTried, docNextTried, docSucceeded, docScene,
                       docRaised, docCalls, docLog, ilVars, lzVars, farVars, histVars>>

\* Collada.load_scenes() up to _loadNodes; one call per document is explored
DocLoadScenes ==
    /\ docPhase = "ready"
    /\ docCalls = 0
    /\ docPhase' = "load_scenes"
    /\ docCalls' = docCalls + 1
    /\ docStage' = FirstSceneStage
    /\ docRaised' = ""
    /\ UNCHANGED <<errVars, docNodeLibs, docLazy, docIn, docItem, docColl, docPending, docRefs,
                   docAt, docTried, docNextTried, docSucceeded, docScene, docLog,
                   ilVars, lzVars, farVars, histVars>>

\* the loader at docStage is called; _loadNodes reads its library here
LoaderStart ==
    /\ docPhase \in {"init", "load_scenes"}
    /\ ~docIn
    /\ docIn' = TRUE
    /\ docItem' = 0
    /\ docLog' = Append(docLog, <<docCalls, "start", Loader>>)
    /\ IF Loader = "nodes"
       THEN /\ docRefs' \in NodeLibsOf(docNodeLibs)
            /\ docAt' = "first"
            /\ docTried' = <<>>
            /\ docNextTried' = <<>>
            /\ docSucceeded' = FALSE
       ELSE UNCHANGED <<docRefs, docAt, docTried, docNextTried, docSucceeded>>
    /\ docPending' = (IF RegistersOnly(docLazy, Loader)
                      THEN [docPending EXCEPT ![Loader] = <<>>] ELSE docPending)
    /\ UNCHANGED <<errVars, docNodeLibs, docPhase, docLazy, docStage, docColl, docScene,
                   docRaised, docCalls, ilVars, lzVars, farVars, histVars>>

\* the loader returns: the next statement of __init__ / load_scenes is due
LoaderReturns ==
    /\ docIn' = FALSE
    /\ docItem' = 0
    /\ docLog' = Append(docLog, <<docCalls, "end", Loader>>)
    /\ IF docStage = (IF docPhase = "init" THEN LastCtorStage(docLazy) ELSE Len(LoadOrder))
       THEN docPhase' = "ready" /\ docStage' = 0
       ELSE docPhase' = docPhase /\ docStage' = docStage + 1

\* Collada._loadAssetInfo: asset.Asset.load is called outside any try, so an
\* exception of the decoder leaves __init__ without passing handleError
LoadAssetInfo ==
    /\ docPhase = "init" /\ docIn /\ Loader = "assetInfo"
    /\ \/ /\ LoaderReturns
          /\ UNCHANGED docRaised
       \/ \E e \in DecodeKinds :
             /\ Abort(e)
             /\ UNCHANGED docLog
    /\ UNCHANGED <<errVars, docNodeLibs, docLazy, docColl, docPending, docRefs, docAt,
                   docTried, docNextTried, docSucceeded, docScene, docCalls, ilVars, lzVars, farVars, histVars>>

\* one round of the child loop of _loadImages ... _loadCameras, _loadScenes:
\* decode the child and append it, or hand the DaeError to handleError; in lazy
\* mode geometry, controller and animation children are registered undecoded
LoadChild ==
    /\ docPhase \in {"init", "load_scenes"} /\ docIn /\ Loader \in PlainLibs
    /\ docItem < MaxItems
    /\ LET i == docItem + 1
       IN  IF RegistersOnly(docLazy, Loader)
           THEN /\ docPending' = [docPending EXCEPT ![Loader] = Append(@, i)]
                /\ docItem' = i
                /\ UNCHANGED <<docColl, docErrors, docPhase, docRaised, docIn, docStage,
                               docDecoded>>
           ELSE \/ /\ docColl' = [docColl EXCEPT ![Loader] = Append(@, i)]
                   /\ docItem' = i
                   /\ docDecoded' = Append(docDecoded, <<Loader, i, "ok">>)
                   /\ UNCHANGED <<docPending, docErrors, docPhase, docRaised, docIn, docStage>>
                \/ \E e \in DecodeKinds :
                      LET h == HandleError(docMask, docErrors, e)
                      IN  /\ Len(docErrors) < MaxFailures
                          /\ docDecoded' = Append(docDecoded, <<Loader, i, e>>)
                          /\ docErrors' = h.errors
                          /\ IF h.res = "suppressed"
                             THEN /\ docItem' = i
                                  /\ UNCHANGED <<docPhase, docRaised, docIn, docStage>>
                             ELSE Abort(Propagated(h.res, e))
                          /\ UNCHANGED <<docColl, docPending>>
    /\ UNCHANGED <<docMask, docLast, docNodeLibs, docLazy, docRefs, docAt, docTried,
                   docNextTried, docSucceeded, docScene, docCalls, docLog, docAccess,
                   ilVars, lzVars, farVars>>

\* the child loop of a plain loader is exhausted
LoadLibraryEnd ==
    /\ docPhase \in {"init", "load_scenes"} /\ docIn /\ Loader \in PlainLibs
    /\ docItem = MaxItems
    /\ LoaderReturns
    /\ UNCHANGED <<errVars, docNodeLibs, docLazy, docColl, docPending, docRefs, docAt,
                   docTried, docNextTried, docSucceeded, docScene, docRaised, docCalls,
                   ilVars, lzVars, farVars, histVars>>

\* scene.loadNode finds the node or object a child instantiates: the child
\* has no instance_node, or the instantiated node is in self.nodes already
Resolvable(i) == docRefs[i] = 0 \/ docRefs[i] \in Range(docColl["nodes"])

\* scene.loadNode with the DaeError arm deferring the child like the
\* DaeInstanceNotLoadedError arm, after handleError
TryLoadNodeDefersFailures(i, retried) ==
    IF ~Resolvable(i)
    THEN /\ docDecoded' = Append(docDecoded, <<"nodes", i, "deferred">>)
         /\ IF retried
            THEN docNextTried' = Append(docNextTried, i) /\ UNCHANGED docTried
            ELSE docTried' = Append(docTried, i) /\ UNCHANGED docNextTried
         /\ docItem' = docItem + 1
         /\ UNCHANGED <<docColl, docSucceeded, docErrors, docPhase, docRaised, docIn, docStage>>
    ELSE \/ /\ docColl' = [docColl EXCEPT !["nodes"] = Append(@, i)]
            /\ docDecoded' = Append(docDecoded, <<"nodes", i, "ok">>)
            /\ docSucceeded' = TRUE
            /\ docItem' = docItem + 1
            /\ UNCHANGED <<docTried, docNextTried, docErrors, docPhase, docRaised, docIn,
                           docStage>>
         \/ \E e \in DecodeKinds :
               LET h == HandleError(docMask, docErrors, e)
               IN  /\ Len(docErrors) < MaxFailures
                   /\ docDecoded' = Append(docDecoded, <<"nodes", i, e>>)
                   /\ docErrors' = h.errors
                   /\ IF h.res = "suppressed"
                      THEN /\ docItem' = docItem + 1
                           /\ UNCHANGED <<docPhase, docRaised, docIn, docStage>>
                      ELSE Abort(Propagated(h.res, e))
                   /\ IF retried
                      THEN docNextTried' = Append(docNextTried, i) /\ UNCHANGED docTried
                      ELSE docTried' = Append(docTried, i) /\ UNCHANGED docNextTried
                   /\ UNCHANGED <<docColl, docSucceeded>>

\* the three arms around scene.loadNode(self, node, {}) for child i:
\* DaeInstanceNotLoadedError defers the child (deferred is the new retry list),
\* another DaeError goes to handleError, a node is appended and sets succeeded
TryLoadNode(i, retried) ==
    IF ~Resolvable(i)
    THEN /\ docDecoded' = Append(docDecoded, <<"nodes", i, "deferred">>)
         /\ IF retried
            THEN docNextTried' = Append(docNextTried, i) /\ UNCHANGED docTried
            ELSE docTried' = Append(docTried, i) /\ UNCHANGED docNextTried
         /\ docItem' = docItem + 1
         /\ UNCHANGED <<docColl, docSucceeded, docErrors, docPhase, docRaised, docIn, docStage>>
    ELSE \/ /\ docColl' = [docColl EXCEPT !["nodes"] = Append(@, i)]
            /\ docDecoded' = Append(docDecoded, <<"nodes", i, "ok">>)
            /\ docSucceeded' = TRUE
            /\ docItem' = docItem + 1
            /\ UNCHANGED <<docTried, docNextTried, docErrors, docPhase, docRaised, docIn,
                           docStage>>
         \/ \E e \in DecodeKinds :
               LET h == HandleError(docMask, docErrors, e)
               IN  /\ Len(docErrors) < MaxFailures
                   /\ docDecoded' = Append(docDecoded, <<"nodes", i, e>>)
                   /\ docErrors' = h.errors
                   /\ IF h.res = "suppressed"
                      THEN /\ docItem' = docItem + 1
                           /\ UNCHANGED <<docPhase, docRaised, docIn, docStage>>
                      ELSE Abort(Propagated(h.res, e))
                   /\ UNCHANGED <<docColl, docSucceeded, docTried, docNextTried>>

\* Collada._loadNodes, one round of the first loop over the library
NodesFirstPass ==
    /\ docPhase \in {"init", "load_scenes"} /\ docIn /\ Loader = "nodes"
    /\ docAt = "first" /\ docItem < MaxNodes
    /\ TryLoadNode(docItem + 1, FALSE)
    /\ UNCHANGED <<docMask, docLast, docNodeLibs, docLazy, docPending, docRefs, docAt,
                   docScene, docCalls, docLog, docAccess, ilVars, lzVars, farVars>>

\* Collada._loadNodes, one round of the loop over tried_loading
NodesRetryPass ==
    /\ docPhase \in {"init", "load_scenes"} /\ docIn /\ Loader = "nodes"
    /\ docAt = "retry" /\ docItem < Len(docTried)
    /\ TryLoadNode(docTried[docItem + 1], TRUE)
    /\ UNCHANGED <<docMask, docLast, docNodeLibs, docLazy, docPending, docRefs, docAt,
                   docScene, docCalls, docLog, docAccess, ilVars, lzVars, farVars>>

\* Collada._loadNodes, the end of a retry pass: tried_loading = next_tried
NodesPassEnd ==
    /\ docPhase \in {"init", "load_scenes"} /\ docIn /\ Loader = "nodes"
    /\ docAt = "retry" /\ docItem = Len(docTried)
    /\ docTried' = docNextTried
    /\ docAt' = "check"
    /\ UNCHANGED <<errVars, docNodeLibs, docPhase, docLazy, docStage, docIn, docItem, docColl,
                   docPending, docRefs, docNextTried, docSucceeded, docScene, docRaised,
                   docCalls, docLog, ilVars, lzVars, farVars, histVars>>

\* control is at `while len(tried_loading) > 0 and succeeded`
AtWhile ==
    /\ docPhase \in {"init", "load_scenes"} /\ docIn /\ Loader = "nodes"
    /\ \/ docAt = "first" /\ docItem = MaxNodes
       \/ docAt = "check"

\* _loadNodes without retry passes
WhileTestNever == FALSE

\* `len(tried_loading) > 0 and succeeded`
WhileTest == Len(docTried) > 0 /\ docSucceeded

\* _loadNodes with `succeeded = False` left out of the loop body
NodesRetryStartKeepsSucceeded ==
    /\ AtWhile
    /\ WhileTest
    /\ docNextTried' = <<>>
    /\ docAt' = "retry"
    /\ docItem' = 0
    /\ UNCHANGED <<errVars, docNodeLibs, docPhase, docLazy, docStage, docIn, docColl,
                   docPending, docRefs, docTried, docSucceeded, docScene, docRaised,
                   docCalls, docLog, ilVars, lzVars, farVars, histVars>>

\* Collada._loadNodes, the while test holds: another pass over tried_loading
NodesRetryStart ==
    /\ AtWhile
    /\ WhileTest
    /\ docSucceeded' = FALSE
    /\ docNextTried' = <<>>
    /\ docAt' = "retry"
    /\ docItem' = 0
    /\ UNCHANGED <<errVars, docNodeLibs, docPhase, docLazy, docStage, docIn, docColl,
                   docPending, docRefs, docTried, docScene, docRaised, docCalls, docLog,
                   ilVars, lzVars, farVars, histVars>>

\* _loadNodes returning normally with children left over in tried_loading
NodesLeftoversDropped ==
    /\ AtWhile
    /\ ~WhileTest
    /\ Len(docTried) > 0
    /\ LoaderReturns
    /\ UNCHANGED <<errVars, docNodeLibs, docLazy, docColl, docPending, docRefs, docAt,
                   docTried, docNextTried, docSucceeded, docScene, docRaised, docCalls,
                   ilVars, lzVars, farVars, histVars>>

\* Collada._loadNodes, the while test fails with children left over:
\* raise DaeBrokenRefError(ex.msg) for the first of them, outside handleError
NodesBrokenRef ==
    /\ AtWhile
    /\ ~WhileTest
    /\ Len(docTried) > 0
    /\ Abort("DaeBrokenRefError")
    /\ UNCHANGED <<errVars, docNodeLibs, docLazy, docColl, docPending, docRefs, docAt,
                   docTried, docNextTried, docSucceeded, docScene, docCalls, docLog,
                   ilVars, lzVars, farVars, histVars>>

\* Collada._loadNodes, the while test fails with nothing left over
NodesEnd ==
    /\ AtWhile
    /\ ~WhileTest
    /\ Len(docTried) = 0
    /\ LoaderReturns
    /\ UNCHANGED <<errVars, docNodeLibs, docLazy, docColl, docPending, docRefs, docAt,
                   docTried, docNextTried, docSucceeded, docScene, docRaised, docCalls,
                   ilVars, lzVars, farVars, histVars>>

\* the url of <scene>/<instance_visual_scene> in the input: 0 when the element
\* is absent, -1 for a url without the leading '#', k for '#' + the id of
\* visual_scene k (MaxItems + 1: an id no visual_scene has)
SceneRefs == (0 - 1)..(MaxItems + 1)

\* _loadDefaultScene with the two raise statements outside the try: the error
\* is recorded but leaves the loader whatever the mask is
LoadDefaultSceneRaises ==
    /\ docPhase \in {"init", "load_scenes"} /\ docIn /\ Loader = "defaultScene"
    /\ \E ref \in SceneRefs :
          LET found == ref \in Range(docColl["scenes"])
              seen == {docDecoded[n][2] : n \in {m \in 1..Len(docDecoded) :
                                                   docDecoded[m][1] = "defaultScene"}}
              e == IF ref = 0 - 1 THEN "DaeMalformedError" ELSE "DaeBrokenRefError"
              h == HandleError(docMask, docErrors, e)
          IN  /\ seen \subseteq {ref}         \* the url is the one an earlier call read
              /\ IF ref = 0 \/ found
                 THEN /\ docScene' = (IF ref = 0 THEN docScene ELSE ref)
                      /\ docDecoded' = Append(docDecoded, <<"defaultScene", ref,
                                                            IF ref = 0 THEN "absent" ELSE "set">>)
                      /\ LoaderReturns
                      /\ UNCHANGED <<docErrors, docRaised>>
                 ELSE /\ Len(docErrors) < MaxFailures
                      /\ docScene' = (IF ref = 0 - 1 THEN docScene ELSE 0)
                      /\ docDecoded' = Append(docDecoded, <<"defaultScene", ref, "error">>)
                      /\ docErrors' = h.errors
                      /\ Abort(e) /\ UNCHANGED docLog
    /\ UNCHANGED <<docMask, docLast, docNodeLibs, docLazy, docColl, docPending, docRefs,
                   docAt, docTried, docNextTried, docSucceeded, docCalls, docAccess,
                   ilVars, lzVars, farVars>>

\* Collada._loadDefaultScene
LoadDefaultScene ==
    /\ docPhase \in {"init", "load_scenes"} /\ docIn /\ Loader = "defaultScene"
    /\ \E ref \in SceneRefs :
          LET found == ref \in Range(docColl["scenes"])
              seen == {docDecoded[n][2] : n \in {m \in 1..Len(docDecoded) :
                                                   docDecoded[m][1] = "defaultScene"}}
              e == IF ref = 0 - 1 THEN "DaeMalformedError" ELSE "DaeBrokenRefError"
              h == HandleError(docMask, docErrors, e)
          IN  /\ seen \subseteq {ref}         \* the url is the one an earlier call read
              /\ IF ref = 0 \/ found
                 THEN /\ docScene' = (IF ref = 0 THEN docScene ELSE ref)
                      /\ docDecoded' = Append(docDecoded, <<"defaultScene", ref,
                                                            IF ref = 0 THEN "absent" ELSE "set">>)
                      /\ LoaderReturns
                      /\ UNCHANGED <<docErrors, docRaised>>
                 ELSE /\ Len(docErrors) < MaxFailures
                      /\ docScene' = (IF ref = 0 - 1 THEN docScene ELSE 0)
                      /\ docDecoded' = Append(docDecoded, <<"defaultScene", ref, "error">>)
                      /\ docErrors' = h.errors
                      /\ IF h.res = "suppressed"
                         THEN LoaderReturns /\ UNCHANGED docRaised
                         ELSE Abort(Propagated(h.res, e)) /\ UNCHANGED docLog
    /\ UNCHANGED <<docMask, docLast, docNodeLibs, docLazy, docColl, docPending, docRefs,
                   docAt, docTried, docNextTried, docSucceeded, docCalls, docAccess,
                   ilVars, lzVars, farVars>>

\* the caller reads child i of a lazy collection (collada.geometries[...] and the
\* like): LazyIndexedList._load_item takes the node out of the pending map and
\* calls the decoder; a DaeError of the decoder goes to the caller as it is.
\* One access per document is explored.
DocAccessLazy ==
    \E l \in LazyLibs :
        \E i \in Range(docPending[l]) :
            /\ docPhase = "ready" /\ docLazy /\ docAccess = <<>>
            /\ docPending' = [docPending EXCEPT ![l] = SelectSeq(@, LAMBDA j : j # i)]
            /\ \/ /\ docColl' = [docColl EXCEPT ![l] = Append(@, i)]
                  /\ docAccess' = <<l, i, "ok">>
               \/ \E e \in DecodeKinds :
                     /\ docAccess' = <<l, i, e>>
                     /\ UNCHANGED docColl
            /\ docDecoded' = Append(docDecoded, docAccess')
            /\ UNCHANGED <<errVars, docNodeLibs, docPhase, docLazy, docStage, docIn, docItem,
                           docRefs, docAt, docTried, docNextTried, docSucceeded, docScene,
                           docRaised, docCalls, docLog, ilVars, lzVars, farVars>>

\* the fields of a Collada object before __init__ has loaded anything
LoadInitial ==
    /\ docLazy = FALSE
    /\ docStage = 0
    /\ docIn = FALSE
    /\ docItem = 0
    /\ docColl = [l \in Libs |-> <<>>]
    /\ docPending = [l \in LazyLibs |-> <<>>]
    /\ docRefs = [i \in 1..MaxNodes |-> 0]
    /\ docAt = "first"
    /\ docTried = <<>>
    /\ docNextTried = <<>>
    /\ docSucceeded = FALSE
    /\ docScene = 0
    /\ docRaised = ""
    /\ docCalls = 0
    /\ docLog = <<>>
    /\ docDecoded = <<>>
    /\ docAccess = <<>>

LoadNext ==
    \/ DocConstruct
    \/ DocLoadScenes
    \/ LoaderStart
    \/ LoadAssetInfo
    \/ LoadChild
    \/ LoadLibraryEnd
    \/ NodesFirstPass
    \/ NodesRetryPass
    \/ NodesPassEnd
    \/ NodesRetryStart
    \/ NodesBrokenRef
    \/ NodesEnd
    \/ LoadDefaultScene
    \/ DocAccessLazy

\* Collada.__init__ up to `self.maskedErrors = []`
ErrInitial ==
    /\ docMask = <<>>
    /\ docErrors = <<>>
    /\ docLast = [op |-> "init", args |-> <<>>, err |-> "", res |-> "ok",
                  mask |-> <<>>, n |-> 0]

ErrNext ==
    \/ DocIgnoreErrors
    \/ DocHandleError

\* a document that exists and is not loading (Collada() or a finished load)
DocInitial == ErrInitial /\ LoadInitial /\ docPhase = "ready" /\ docNodeLibs = "none"

ILInitial ==
    /\ ilSeq = <<>>
    /\ ilIndex = EmptyMap
    /\ ilLast = ILDone("init", "ok")

ILNext ==
    \/ ILConstruct
    \/ ILAppend
    \/ ILExtend
    \/ ILInsert
    \/ ILPop
    \/ ILDelItem
    \/ ILSetItem
    \/ ILRemove

\* IndexedList driven with any objects, several of which may share an id
InitIL == ilPool = Objs /\ ILInitial /\ LZInitial /\ FarInitial /\ DocInitial
SpecIL == InitIL /\ [][ILNext]_vars

\* IndexedList driven with objects of pairwise distinct ids
InitILUnique == ilPool = UniqueObjs /\ ILInitial /\ LZInitial /\ FarInitial /\ DocInitial
\* a collection that only grows, objects with equal ids allowed
GrowNext == ILAppend \/ ILExtend
SpecGrow == InitIL /\ [][GrowNext]_vars
SpecILUnique == InitILUnique /\ [][ILNext]_vars

\* a LazyIndexedList under any calls of its methods
InitLazy == ilPool = {} /\ ILInitial /\ LZInitial /\ FarInitial /\ DocInitial
SpecLazy == InitLazy /\ [][LZNext]_vars

\* the error policy of a document under any calls of ignoreErrors and handleError
InitErr == ilPool = {} /\ ILInitial /\ LZInitial /\ FarInitial /\ DocInitial
SpecErr == InitErr /\ [][ErrNext]_vars

\* Collada(filename, ignore, lazy) on any input document, then load_scenes
InitLoad ==
    /\ ilPool = {} /\ ILInitial /\ LZInitial /\ FarInitial /\ ErrInitial /\ LoadInitial
    /\ docPhase = "new" /\ docNodeLibs = "plain"
SpecLoad == InitLoad /\ [][LoadNext]_vars

\* the input resolver called once, for any scope, ignore list and raw tuples
InitResolve ==
    /\ ilPool = {} /\ ILInitial /\ LZInitial /\ LoadInitial
    /\ docPhase = "ready" /\ docNodeLibs = "none"
    /\ \E ignore \in ResolverIgnoreLists : docMask = IgnoreErrors(<<>>, ignore)
    /\ docErrors = <<>>
    /\ docLast = [op |-> "init", args |-> <<>>, err |-> "", res |-> "ok",
                  mask |-> <<>>, n |-> 0]
    /\ rsScope \in Scopes
    /\ rsInputs = <<>>
    /\ rsResult = [res |-> "none", table |-> EmptyMap, expanded |-> <<>>]
    /\ SVInitial /\ ARInitial
SpecResolve == InitResolve /\ [][RSResolve]_vars

\* a loaded document that is mutated and saved
InitSave ==
    /\ ilPool = {} /\ ILInitial /\ LZInitial /\ RSInitial /\ ErrInitial /\ LoadInitial
    /\ docPhase = "ready" /\ docNodeLibs = "none"
    /\ SVLoaded /\ ARInitial
SpecSave == InitSave /\ [][SaveNext]_vars

\* the constructor reading its input, for any ignore list
InitOpen ==
    /\ ilPool = {} /\ ILInitial /\ LZInitial /\ RSInitial /\ SVInitial /\ LoadInitial
    /\ docPhase = "new" /\ docNodeLibs = "none"
    /\ \E ignore \in IgnoreLists : docMask = IgnoreErrors(<<>>, ignore)
    /\ docErrors = <<>>
    /\ docLast = [op |-> "init", args |-> <<>>, err |-> "", res |-> "ok",
                  mask |-> <<>>, n |-> 0]
    /\ AROpening
SpecOpen == InitOpen /\ [][OpenNext]_vars

\* _loadNodes as load_scenes runs it
NodesNext ==
    \/ DocLoadScenes
    \/ LoaderStart
    \/ NodesFirstPass
    \/ NodesRetryPass
    \/ NodesPassEnd
    \/ NodesRetryStart
    \/ NodesBrokenRef
    \/ NodesEnd

\* a document built with lazy=True from an input with a <library_nodes> of any
\* shape and no other library; one node is in self.nodes already
InitNodes ==
    /\ ilPool = {} /\ ILInitial /\ LZInitial /\ FarInitial
    /\ \E ignore \in IgnoreLists : docMask = IgnoreErrors(<<>>, ignore)
    /\ docErrors = <<>>
    /\ docLast = [op |-> "init", args |-> <<>>, err |-> "", res |-> "ok",
                  mask |-> <<>>, n |-> 0]
    /\ docNodeLibs = "any"
    /\ docPhase = "ready"
    /\ docLazy = TRUE
    /\ docStage = 0
    /\ docIn = FALSE
    /\ docItem = 0
    /\ docColl = [l \in Libs |-> IF l = "nodes" THEN <<EarlierNode>> ELSE <<>>]
    /\ docPending = [l \in LazyLibs |-> <<>>]
    /\ docRefs = [i \in 1..MaxNodes |-> 0]
    /\ docAt = "first"
    /\ docTried = <<>>
    /\ docNextTried = <<>>
    /\ docSucceeded = FALSE
    /\ docScene = 0
    /\ docRaised = ""
    /\ docCalls = 0
    /\ docLog = [n \in 1..(2 * LastCtorStage(TRUE)) |->
                    <<0, IF n % 2 = 1 THEN "start" ELSE "end", LoadOrder[(n + 1) \div 2]>>]
    /\ docDecoded = <<>>
    /\ docAccess = <<>>

\* the node loader of load_scenes for every library shape and ignore list
SpecNodes == InitNodes /\ [][NodesNext]_vars

\* load_scenes runs to completion: the code is single-threaded and each step
\* of the loader is followed by the next
SpecNodesLive == SpecNodes /\ WF_vars(NodesNext)

(***************************************************************************)
(* Properties of IndexedList                                               *)
(***************************************************************************)
\* C1: every object currently in the sequence is the value stored in the
\* identity index under that object's id, after any sequence of operations,
\* whether each call returned normally or raised.
C1_IndexHoldsEveryMember ==
    \A i \in 1..Len(ilSeq) :
        /\ IdOf(ilSeq[i]) \in DOMAIN ilIndex
        /\ ilIndex[IdOf(ilSeq[i])] = ilSeq[i]

\* C2: for every valid position i of a reachable collection, looking up the id
\* of the object at position i returns normally and returns that very object
\* (collection[collection[i].id] is collection[i]).
C2_IdLookupRoundTrips ==
    \A i \in 1..Len(ilSeq) :
        GetItemById(ilIndex, IdOf(ilSeq[i])) = [res |-> "ok", obj |-> ilSeq[i]]

(***************************************************************************)
(* Properties of LazyIndexedList                                           *)
(***************************************************************************)
\* C3: len(collection) equals the number of distinct identity values ever
\* registered (add_node) or appended.
C3_LenCountsDistinctIds == LzLen = Cardinality(Range(lzFirst))

\* C4: no identity value is a key of both the pending-node map and the
\* materialized-object map.
C4_PendingLoadedDisjoint == (DOMAIN lzPending) \cap (DOMAIN lzLoaded) = {}

C6_MaterializedStaysOutOfPending ==
    [][\A k \in LzIds :
          k \in DOMAIN lzLoaded => (k \in DOMAIN lzLoaded' /\ k \notin DOMAIN lzPending')]_vars

\* C7: a full iteration that runs to its end yields exactly one object per
\* registered or appended identity, in the order of first insertion.
C7_IterationFollowsFirstInsertion ==
    (lzLast.op = "iter" /\ lzLast.res = "ok") =>
        /\ Len(lzLast.out) = Len(lzFirst)
        /\ \A i \in 1..Len(lzFirst) :
              lzLast.out[i] # NoneVal /\ IdOf(lzLast.out[i]) = lzFirst[i]

(***************************************************************************)
(* Properties of the error policy                                          *)
(***************************************************************************)
\* e is equal to or a sub-kind of a kind in the mask
MaskedBy(mask, e) ==
    \E i \in 1..Len(mask) : mask[i] \in Kinds /\ IsInstance(e, mask[i])

\* C8: handleError(e) appends e to the error list and then re-raises e unless
\* e's kind is equal to or a sub-kind of a kind in the mask; a mask holding
\* DaeError suppresses every kind.
C8_HandleErrorPolicy ==
    docLast.op = "handleError" =>
        /\ Len(docErrors) = docLast.n + 1
        /\ docErrors[Len(docErrors)] = docLast.err
        /\ docLast.res = (IF MaskedBy(docMask, docLast.err) THEN "suppressed" ELSE "raise")

\* C9: ignoreErrors with kinds appends those kinds to the mask, ignoreErrors(None)
\* empties it, and with the mask it leaves every error given to handleError
\* is re-raised.
C9_IgnoreErrorsNoneClears ==
    docLast.op = "ignoreErrors" =>
        IF docLast.args = <<PyNone>>
        THEN /\ docMask = <<>>
             /\ \A e \in RaisedKinds : HandleError(docMask, docErrors, e).res = "raise"
        ELSE docMask = docLast.mask \o docLast.args

(***************************************************************************)
(* Properties of document loading                                          *)
(***************************************************************************)
\* the loaders of a construction in the order the specification gives them
CtorOrder(lazy) ==
    <<"assetInfo", "images", "effects", "materials", "animations", "geometry",
      "controllers", "lights", "cameras">>
    \o (IF lazy THEN <<>> ELSE <<"nodes", "scenes", "defaultScene">>)

\* the log of a call that runs the loaders of order one after the other, each
\* one finished before the next starts
Bracketed(call, order) ==
    [i \in 1..(2 * Len(order)) |->
        <<call, IF i % 2 = 1 THEN "start" ELSE "end", order[(i + 1) \div 2]>>]

\* the events of docLog that belong to the call
EventsOf(call) == SelectSeq(docLog, LAMBDA ev : ev[1] = call)

IsPrefix(s, t) == Len(s) <= Len(t) /\ SubSeq(t, 1, Len(s)) = s

\* C10: construction runs the loaders in the order asset info, images, effects,
\* materials, animations, geometry, controllers, lights, cameras and, only when
\* lazy is false, nodes, scenes, default scene; a loader starts only after the
\* previous one has finished; a construction that completes has run them all,
\* and after an aborting error the aborted loader is the last one that ran.
C10_LoadersRunInFixedOrder ==
    docPhase # "new" =>
        LET ran == EventsOf(0)
            all == Bracketed(0, CtorOrder(docLazy))
        IN  /\ IsPrefix(ran, all)
            /\ docPhase \in {"ready", "load_scenes"} => ran = all
            /\ docPhase = "failed" =>
                  /\ Len(ran) % 2 = 1
                  /\ docRaised # ""
                  /\ ~docIn
                  /\ ~ENABLED LoadNext

\* a construction with lazy false has completed: all twelve loaders ran
C10_Witness ==
    /\ docPhase = "ready" /\ docCalls = 0 /\ ~docLazy
    /\ Len(docLog) = 24
    /\ docLog[19] = <<0, "start", "nodes">>

\* the decoder calls logged for the libraries in libs
DecodedIn(libs) == SelectSeq(docDecoded, LAMBDA d : d[1] \in libs)

Failures == SelectSeq(docDecoded, LAMBDA d : d[3] \in DecodeKinds)

\* the children of library l whose decoder returned an object, in call order
Successes(l) ==
    LET ok == SelectSeq(docDecoded, LAMBDA d : d[1] = l /\ d[3] = "ok")
    IN  [n \in 1..Len(ok) |-> ok[n][2]]

\* every node reference of the input names nothing or a node of the library
NoDanglingNodeRef == \A i \in DOMAIN docRefs : docRefs[i] \in 0..MaxNodes

\* C12: in a non-lazy construction whose decoder failures are all of masked
\* kinds (and whose input has no other defect), construction completes; the
\* failing items are absent from their collections, every item that decoded is
\* present, in document order, and the error list holds the failures.
C12_MaskedFailureOnlyOmitsItem ==
    (/\ ~docLazy /\ docCalls = 0 /\ docPhase \in {"init", "ready", "failed"}
     /\ Failures # <<>>
     /\ \A n \in 1..Len(docErrors) : MaskedBy(docMask, docErrors[n])
     /\ NoDanglingNodeRef) =>
        /\ docPhase # "failed"
        /\ IsPrefix([n \in 1..Len(Failures) |-> Failures[n][3]], docErrors)
        /\ docPhase = "ready" =>
              /\ \A l \in PlainLibs :
                    /\ docColl[l] = Successes(l)
                    /\ \A n \in 1..(Len(docColl[l]) - 1) : docColl[l][n] < docColl[l][n + 1]
              /\ Range(docColl["nodes"]) = Range(Successes("nodes"))
              /\ \A n \in 1..Len(Failures) :
                    Failures[n][2] \notin Range(docColl[Failures[n][1]])

\* C13: in a non-lazy construction with an empty mask the first decoder failure
\* aborts construction with that very error; it is the last decoder call, so no
\* item after it, in its library or a later one, is decoded.
C13_UnmaskedFailureAborts ==
    (~docLazy /\ docCalls = 0 /\ docMask = <<>> /\ Failures # <<>>) =>
        /\ docPhase = "failed"
        /\ Len(Failures) = 1
        /\ docDecoded[Len(docDecoded)] = Failures[1]
        /\ docRaised = Failures[1][3]
        /\ docErrors = <<Failures[1][3]>>
        /\ \A l \in Libs : docColl[l] = Successes(l)

\* the decoder of the first geometry failed after images, effects, materials
\* and animations had loaded; construction raised that error
C13_Witness ==
    /\ ~docLazy /\ docMask = <<>> /\ docPhase = "failed"
    /\ docRaised = "DaeMalformedError"
    /\ Len(docDecoded) = 9
    /\ docDecoded[9] = <<"geometry", 1, "DaeMalformedError">>
    /\ docColl["geometry"] = <<>> /\ docColl["controllers"] = <<>>

(***************************************************************************)
(* Properties of node library loading                                      *)
(***************************************************************************)
\* _loadNodes has just been entered by load_scenes and has read its library
NodesLoaderEntered ==
    /\ docPhase = "load_scenes" /\ docIn
    /\ Loader = "nodes" /\ docAt = "first" /\ docItem = 0

\* every reference of the library names a node of the library or a node that
\* is in the nodes collection already
RefsDefined ==
    \A i \in 1..MaxNodes :
        docRefs[i] # 0 => docRefs[i] \in (1..MaxNodes) \cup Range(docColl["nodes"])

\* where following the references from node i for n steps ends
RECURSIVE Walk(_, _)
Walk(i, n) == IF n = 0 \/ i \notin 1..MaxNodes THEN i ELSE Walk(docRefs[i], n - 1)

\* no node of the library instantiates itself, directly or through others
RefsAcyclic == \A i \in 1..MaxNodes : Walk(i, MaxNodes) \notin 1..MaxNodes

\* _loadNodes has returned without an error and every node of the library is
\* in the nodes collection
NodesAllLoaded ==
    /\ \E n \in 1..Len(docLog) : docLog[n] = <<1, "end", "nodes">>
    /\ docRaised = ""
    /\ \A i \in 1..MaxNodes : i \in Range(docColl["nodes"])

CanResolve(i) ==
    LET end == Walk(i, MaxNodes)
    IN  end = 0 \/ (end \notin 1..MaxNodes /\ end \in Range(docColl["nodes"]))

\* _loadNodes raised the broken-reference error of its last statement: no node
\* decoder failed, the loader did not return, the nodes left over are the ones
\* that cannot resolve, and every node that can resolve has been appended
NodesBrokenRefAtFixpoint ==
    /\ docRaised = "DaeBrokenRefError" /\ docPhase = "ready" /\ docCalls = 1
    /\ \A n \in 1..Len(docLog) : docLog[n] # <<1, "end", "nodes">>
    /\ Range(docTried) = {i \in 1..MaxNodes : ~CanResolve(i)}
    /\ \A i \in 1..MaxNodes : CanResolve(i) => i \in Range(docColl["nodes"])

ExampleScope ==
    [k \in {KeyP, KeyV} |->
        IF k = KeyP THEN SourceA
        ELSE Bundle(<<<<"POSITION", SourceA>>, <<"NORMAL", SourceB>>>>)]

\* the single raw tuple (0, VERTEX, #v, None)
ExampleInputs == <<<<0, "VERTEX", <<"#">> \o KeyV, PyNone>>>>

\* the table returned has one VERTEX binding of SourceA, one NORMAL binding of
\* SourceB and nothing under the six other known semantics
ExampleTable ==
    /\ rsResult.res = "ok"
    /\ DOMAIN rsResult.table = KnownSemantics
    /\ Len(rsResult.table["VERTEX"]) = 1 /\ rsResult.table["VERTEX"][1][5] = SourceA
    /\ Len(rsResult.table["NORMAL"]) = 1 /\ rsResult.table["NORMAL"][1][5] = SourceB
    /\ \A m \in KnownSemantics \ {"VERTEX", "NORMAL"} : rsResult.table[m] = <<>>

\* C16 as stated: with SourceA under "p" and the bundle {POSITION: SourceA,
\* NORMAL: SourceB} under "v" as the whole scope, resolving (0, VERTEX, #v, None)
\* returns one VERTEX binding of SourceA, one NORMAL binding of SourceB and
\* empty lists for the other six known semantics.
C16_BundleExampleResolves ==
    (rsResult.res # "none" /\ rsScope = ExampleScope /\ rsInputs = ExampleInputs)
        => ExampleTable

\* C16, amended: the same when the scope also holds SourceB under its own id.
C16_BundleExampleWithSourcesInScope ==
    (/\ rsResult.res # "none"
     /\ rsScope = ExampleScope @@ [k \in {KeyN} |-> SourceB]
     /\ rsInputs = ExampleInputs) => ExampleTable

\* the example has been resolved with SourceB in scope
C16_Witness ==
    /\ rsScope = ExampleScope @@ [k \in {KeyN} |-> SourceB]
    /\ rsInputs = ExampleInputs
    /\ rsResult.res = "ok"
    /\ rsResult.table["VERTEX"] = <<<<0, "VERTEX", <<"#">> \o KeyP, PyNone, SourceA>>>>
    /\ rsResult.table["NORMAL"] = <<<<0, "NORMAL", <<"#">> \o KeyN, PyNone, SourceB>>>>

\* the raw tuple's source string is '#' + key and key names a data source of the scope
ResolvesToSource(input) ==
    /\ Len(input[3]) >= 2 /\ input[3][1] = "#"
    /\ ScopeGet(rsScope, SourceKey(input[3])).kind = "source"

\* the binding the resolver files for a raw tuple
BindingOf(input) == <<input[1], input[2], input[3], input[4], rsScope[SourceKey(input[3])]>>

C18_UnknownSemanticNeverAborts ==
    (/\ rsResult.res # "none"
     /\ \A n \in 1..Len(rsInputs) : ResolvesToSource(rsInputs[n])
     /\ \E n \in 1..Len(rsInputs) : rsInputs[n][2] = "FOO") =>
        /\ rsResult.res = "ok"
        /\ "DaeUnsupportedError" \in Range(docErrors)

RECURSIVE Flatten(_)
\* the concatenation of a sequence of sequences
Flatten(ss) == IF ss = <<>> THEN <<>> ELSE Head(ss) \o Flatten(Tail(ss))

\* step 1 of the resolver as specified: a VERTEX tuple over a bundle is
\* replaced by one tuple per entry of the bundle, every other tuple passes
\* through unchanged
TuplesAfterExpansion ==
    Flatten([n \in 1..Len(rsInputs) |->
        LET entry == ScopeGet(rsScope, SourceKey(rsInputs[n][3]))
        IN  IF rsInputs[n][2] = "VERTEX" /\ entry.kind = "dict"
            THEN ExpandBundle(rsInputs[n], entry)
            ELSE <<rsInputs[n]>>])

\* how often x occurs in the sequence s
Occurrences(s, x) == Cardinality({n \in 1..Len(s) : s[n] = x})

\* the raw tuples bound in bucket m of the table returned, in order
BoundIn(m) ==
    [k \in 1..Len(rsResult.table[m]) |->
        <<rsResult.table[m][k][1], rsResult.table[m][k][2], rsResult.table[m][k][3],
          rsResult.table[m][k][4]>>]

\* the number of bindings the table returned holds over all its buckets
TotalBindings ==
    Cardinality({mk \in (DOMAIN rsResult.table) \X (1..(2 * MaxInputs)) :
                    mk[2] <= Len(rsResult.table[mk[1]])})

\* C19: whenever resolution returns normally, the buckets of the table hold as
\* many bindings in total as there are tuples after bundle expansion, and each
\* such tuple is bound in the bucket of its semantic and in no other.
C19_EveryTupleInItsBucket ==
    rsResult.res = "ok" =>
        LET tuples == TuplesAfterExpansion
        IN  /\ TotalBindings = Len(tuples)
            /\ \A n \in 1..Len(tuples) :
                  /\ tuples[n][2] \in DOMAIN rsResult.table
                  /\ Occurrences(BoundIn(tuples[n][2]), tuples[n]) = Occurrences(tuples, tuples[n])
            /\ \A m \in DOMAIN rsResult.table :
                  \A k \in 1..Len(rsResult.table[m]) : rsResult.table[m][k][2] = m

\* save() has just returned normally
SaveReturned == svLast.op = "save" /\ svLast.res = "ok"

\* the tree has the container of the kind exactly when the collection has members
ContainerIff(kind) == (Find(svRoot, LibraryTag[kind]) # 0) <=> (svColl[kind] # <<>>)

\* the containers the call created form the block right after the asset child
CreatedAfterAsset ==
    \A c \in svLast.created :
        \E i \in 1..Len(svRoot) :
            /\ svRoot[i].tag = c
            /\ i > LibraryLoc(svRoot)
            /\ i <= LibraryLoc(svRoot) + Cardinality(svLast.created)

\* C20: after save() returns normally, each of the ten collections has its
\* library container in the tree if and only if the collection is non-empty,
\* and the containers save created sit right after the asset container.
C20_ContainerIffCollectionNonEmpty ==
    SaveReturned => (\A kind \in AllKinds : ContainerIff(kind)) /\ CreatedAfterAsset

\* the tree has at most one container of each kind
OneContainerPerKind(root) ==
    \A i, j \in 1..Len(root) : root[i].tag = root[j].tag => i = j

\* what save() does keep: the claim for the nine kinds of its `libraries`
\* list, in a document that had at most one container of each kind
C20_HoldsForListedKinds ==
    (SaveReturned /\ OneContainerPerKind(svLast.root)) =>
        (\A kind \in Range(SaveLibraries) : ContainerIff(kind)) /\ CreatedAfterAsset

\* the children of every container of a kind are the nodes of the members, each once
ChildrenAreMembers(kind) ==
    \A c \in 1..Len(svRoot) :
        svRoot[c].tag = LibraryTag[kind] =>
            /\ Range(svRoot[c].kids) = Range(svColl[kind])
            /\ \A i, j \in 1..Len(svRoot[c].kids) :
                   svRoot[c].kids[i] = svRoot[c].kids[j] => i = j

\* C21: after save() returns normally, the children of each library container
\* are exactly the tree nodes of the current members of its collection: each
\* member's node is a child and every stale child is gone, wherever the stale
\* children were and however many of them were adjacent.
C21_ChildrenAreExactlyTheMembers ==
    SaveReturned => \A kind \in AllKinds : ChildrenAreMembers(kind)

\* save() was called with a default scene that is not in self.scenes
SavedWithStrayScene ==
    svLast.op = "save" /\ svScene # 0 /\ svScene \notin Range(svColl["scenes"])

\* the tree is what it was when save() was called
TreeUntouched ==
    svRoot = svLast.root /\ svSceneRef = svLast.ref

\* C22: when document.scene is a scene whose id is not in document.scenes,
\* save() raises the broken-reference error and the tree is exactly as it was
\* before the call: no library container, no library child and not the
\* scene-reference node has been changed.
C22_StraySceneRaisesBeforeAnyChange ==
    SavedWithStrayScene => svLast.res = "DaeBrokenRefError" /\ TreeUntouched

\* save() was called on the document as the load left it: the collections
\* and the default scene are those a load of the tree before the call yields
SavedUnchanged ==
    SaveReturned /\ svColl = LoadedColl(svLast.root) /\ svScene = svLast.ref

\* C23: loading a document, calling save() with no mutation and loading the
\* resulting tree again yields, for each of the ten library kinds, a
\* collection with the same identities in the same order and the same count
\* as after the first load.
C23_SaveThenLoadRoundTrips ==
    SavedUnchanged => \A kind \in AllKinds : LoadTree(svRoot, LibraryTag[kind]) = svColl[kind]

\* the constructor has read an archive
OpenedArchive == arLast.res # "none" /\ arIn.zip

\* the members whose names end in .dae, as the archive lists them
Candidates == SelectSeq(arIn.names, LAMBDA name : name.kind \in {"dae", "macdae"})

\* the candidates whose names do not contain the resource-fork marker
PlainCandidates == SelectSeq(Candidates, LAMBDA name : name.kind # "macdae")

\* no marked candidate is kept when a later candidate exists
MarkedNeverKept ==
    \A i \in 1..(Len(Candidates) - 1) :
        Candidates[i].kind = "macdae" => arLast.filename # Candidates[i]

\* no candidate when none is named, or a named member the archive lacks,
\* ends construction with the incomplete-document error
MissingMemberIsIncomplete ==
    (\/ arIn.explicit = NoName /\ Candidates = <<>>
     \/ arIn.explicit # NoName /\ arIn.explicit \notin Range(arIn.names))
        => arLast.res = "DaeIncompleteError"

\* C24 (as stated): with no explicit member name and several names ending in
\* .dae the selected member is the last-listed candidate, a candidate with
\* the resource-fork marker is never kept when a later candidate exists, and
\* no candidate, or an explicit name the archive lacks, raises the
\* incomplete-document error.
C24_LastCandidateSelected ==
    OpenedArchive =>
        /\ (arIn.explicit = NoName /\ Len(Candidates) >= 2) =>
               /\ arLast.filename = Candidates[Len(Candidates)]
               /\ MarkedNeverKept
        /\ MissingMemberIsIncomplete

\* C24 (amended): the selected member is the first-listed candidate without
\* the resource-fork marker, or the last-listed candidate when every
\* candidate has the marker; the other two parts are as stated.
C24_FirstPlainCandidateSelected ==
    OpenedArchive =>
        /\ (arIn.explicit = NoName /\ Len(Candidates) >= 2) =>
               /\ arLast.filename = IF PlainCandidates # <<>> THEN PlainCandidates[1]
                                    ELSE Candidates[Len(Candidates)]
               /\ MarkedNeverKept
        /\ MissingMemberIsIncomplete

\* an archive that lists a marked candidate and then two plain ones was read:
\* the first plain one is the document
C24_Witness ==
    /\ OpenedArchive /\ arIn.explicit = NoName /\ arLast.res = "parsed"
    /\ Len(Candidates) = 3
    /\ Candidates[1].kind = "macdae" /\ Candidates[2].kind = "dae" /\ Candidates[3].kind = "dae"
    /\ arLast.filename = Candidates[2]

\* the constructor has read its input, a plain file or an archive
Opened == arLast.res # "none"

\* the body the parser was given is not well-formed XML
MalformedBody ==
    /\ Opened /\ ~arLast.wellFormed
    /\ arIn.zip => arLast.filename \in Range(arIn.names)

\* the archive has no member that qualifies as the document
NoQualifyingMember == OpenedArchive /\ arIn.explicit = NoName /\ Candidates = <<>>

\* C25: top-level structural failures abort construction whatever the ignore
\* list is: a malformed XML body raises the malformed-document error and an
\* archive with no qualifying member raises the incomplete-document error,
\* also when DaeError is masked, and neither passes through handleError (no
\* error is recorded).
C25_StructuralFailuresAlwaysAbort ==
    /\ MalformedBody => arLast.res = "DaeMalformedError" /\ docErrors = <<>>
    /\ NoQualifyingMember => arLast.res = "DaeIncompleteError" /\ docErrors = <<>>

\* both failures happened to a document built with ignore=[DaeError]
C25_Witness ==
    /\ docMask = <<"DaeError">>
    /\ \/ MalformedBody /\ arLast.res = "DaeMalformedError"
       \/ NoQualifyingMember /\ arLast.res = "DaeIncompleteError"

\* the step is a call of the IndexedList operation op whose key names an
\* object of the collection (found at position ilLast'.pos before the call)
CallOnMember(op) == ilLast'.op = op /\ ilLast'.pos # 0 /\ ilLast'.pos <= Len(ilSeq)

\* C26: IndexedList.remove(x), for x an object of the collection or the id of
\* one, returns normally and removes exactly that object from the sequence and
\* its id from the index; the other elements, their order and their index
\* entries are unchanged.
C26_RemoveTakesOutExactlyThatObject ==
    [][CallOnMember("remove") =>
          /\ ilLast'.res = "ok"
          /\ ilSeq' = RemoveAt(ilSeq, ilLast'.pos)
          /\ ilIndex' = [k \in (DOMAIN ilIndex) \ {IdOf(ilSeq[ilLast'.pos])} |-> ilIndex[k]]]_vars

\* C27: collection[k] = new, for k a valid position or an existing id, returns
\* normally; afterwards the sequence holds new where the old object was, the
\* index maps new's id to new, and the old object's id is not in the index
\* unless new has the same id.
C27_SetItemReplacesInPlace ==
    [][CallOnMember("setitem") =>
          LET old == ilSeq[ilLast'.pos]
              new == ilLast'.new
          IN  /\ ilLast'.res = "ok"
              /\ ilSeq' = [ilSeq EXCEPT ![ilLast'.pos] = new]
              /\ IdOf(new) \in DOMAIN ilIndex' /\ ilIndex'[IdOf(new)] = new
              /\ IdOf(old) # IdOf(new) => IdOf(old) \notin DOMAIN ilIndex']_vars

\* C28: IndexedList.insert(i, obj) succeeds for every position 0 <= i <= len,
\* including an empty collection and the end, placing obj at position i and
\* adding its id to the index.
C28_InsertAtEveryPosition ==
    [][(/\ ilLast'.op = "insert" /\ ilLast'.key.kind = "pos"
        /\ 0 <= ilLast'.key.pos /\ ilLast'.key.pos <= Len(ilSeq)) =>
          LET i == ilLast'.key.pos
              new == ilLast'.new
          IN  /\ ilLast'.res = "ok"
              /\ ilSeq' = SubSeq(ilSeq, 1, i) \o <<new>> \o SubSeq(ilSeq, i + 1, Len(ilSeq))
              /\ IdOf(new) \in DOMAIN ilIndex' /\ ilIndex'[IdOf(new)] = new]_vars

\* the step appends an object whose id an other object of the sequence has
AppendOfSecondCopy ==
    /\ ilLast'.op = "append"
    /\ \E i \in 1..Len(ilSeq) : IdOf(ilSeq[i]) = IdOf(ilLast'.new) /\ ilSeq[i] # ilLast'.new

\* C29: appending two distinct objects with the same id keeps both in the
\* sequence in append order, and lookup by that id returns the one appended
\* last.
C29_DuplicateIdKeepsBothIndexesLast ==
    [][AppendOfSecondCopy =>
          /\ ilSeq' = Append(ilSeq, ilLast'.new)
          /\ GetItemById(ilIndex', IdOf(ilLast'.new)) = [res |-> "ok", obj |-> ilLast'.new]]_vars

\* two distinct objects with one id were appended one after the other: both
\* are in the sequence and the index holds the second
C29_Witness ==
    /\ ilLast.op = "append" /\ Len(ilSeq) = 2
    /\ ilSeq[1] # ilSeq[2] /\ IdOf(ilSeq[1]) = IdOf(ilSeq[2])
    /\ ilLast.new = ilSeq[2] /\ ilIndex[IdOf(ilSeq[2])] = ilSeq[2]

\* the identity is a key of exactly one of the pending and the materialized map
InExactlyOneMap(k) == (k \in DOMAIN lzPending) # (k \in DOMAIN lzLoaded)

\* C30: every identity in the insertion order is in exactly one of the pending
\* and the materialized map in every reachable state, also after a
\* materialization whose decoder raised: the error reaches the caller and the
\* identity is still pending, so a later access decodes again.
C30_EveryIdInExactlyOneMap ==
    \A i \in 1..Len(lzOrder) : InExactlyOneMap(lzOrder[i])

\* the python position i of collection[i] as a position of self._order
\* (1-based), 0 when i is out of range
OrderPos(i) ==
    IF 0 - Len(lzOrder) <= i /\ i < Len(lzOrder)
    THEN (IF i < 0 THEN Len(lzOrder) + i ELSE i) + 1
    ELSE 0

\* C31: for -len <= i < len, collection[i] returns the materialized object of
\* the identity at insertion position i (negative i counted from the end),
\* never a missing value; for i outside that range it raises an index error
\* and materializes nothing.  A decoder error that propagates to the caller
\* is no return and is left out of the statement.
C31_PositionalAccessMaterializes ==
    [][lzLast'.op = "getpos" /\ lzLast'.res # "DaeError" =>
          LET p == OrderPos(lzLast'.key)
          IN  IF p = 0
              THEN /\ lzLast'.res = "IndexError"
                   /\ lzLoaded' = lzLoaded /\ lzPending' = lzPending
              ELSE /\ lzLast'.res = "ok"
                   /\ lzLast'.val # NoneVal
                   /\ lzOrder[p] \in DOMAIN lzLoaded'
                   /\ lzLast'.val = lzLoaded'[lzOrder[p]]]_vars

\* _loadNodes is running under load_scenes
NodesLoopRunning == docPhase = "load_scenes" /\ docIn /\ Loader = "nodes"

\* the pass that is running or has just ended appended a node: its decoder
\* calls are the last docItem calls recorded
PassAppended ==
    \E n \in (Len(docDecoded) - docItem + 1)..Len(docDecoded) : docDecoded[n][3] = "ok"

\* _loadNodes is over: it returned with nothing left to retry, or raised the
\* broken-reference error of its last statement for a node left over, or an
\* unmasked decoder error left it through handleError
NodesLoopEnded ==
    /\ ~NodesLoopRunning
    /\ \/ /\ \E n \in 1..Len(docLog) : docLog[n] = <<1, "end", "nodes">>
          /\ docTried = <<>> /\ docRaised = ""
       \/ /\ docRaised = "DaeBrokenRefError" /\ docTried # <<>>
          /\ \A n \in 1..Len(docLog) : docLog[n] # <<1, "end", "nodes">>
       \/ /\ docRaised # "" /\ docDecoded # <<>>
          /\ docDecoded[Len(docDecoded)][3] \in DecodeKinds

RetrySet == IF docAt = "retry" THEN docNextTried ELSE docTried

\* the outcome of the last decoder call for node i ("" when it had none)
LastOutcome(i) ==
    LET calls == SelectSeq(docDecoded, LAMBDA d : d[1] = "nodes" /\ d[2] = i)
    IN  IF calls = <<>> THEN "" ELSE calls[Len(calls)][3]

\* C33: a node whose decode fails with a DaeError other than the
\* instance-not-yet-loaded condition is passed to handleError at once, in the
\* first pass or in a retry pass, and is never placed in (or kept in) the retry
\* set; only the instance-not-yet-loaded condition defers a node.
C33_OnlyNotLoadedDefers ==
    /\ [](\A n \in 1..Len(RetrySet) : LastOutcome(RetrySet[n]) = "deferred")
    /\ [][Len(docDecoded') > Len(docDecoded) =>
             LET d == docDecoded'[Len(docDecoded')]
             IN  /\ d[3] \in DecodeKinds =>
                       /\ docErrors' = Append(docErrors, d[3])
                       /\ docTried' = docTried /\ docNextTried' = docNextTried
                       /\ docColl' = docColl
                 /\ d[3] = "deferred" =>
                       /\ docErrors' = docErrors
                       /\ RetrySet' = Append(RetrySet, d[2])]_vars

\* node 1 instantiates node 3 and was deferred in the first pass; in the retry
\* pass its decoder raised a masked DaeMalformedError, which handleError
\* recorded; the retry set ended empty and the loader returned
C33_Witness ==
    /\ docRefs[1] = 3
    /\ Len(docDecoded) = MaxNodes + 1
    /\ docDecoded[1] = <<"nodes", 1, "deferred">>
    /\ docDecoded[MaxNodes + 1] = <<"nodes", 1, "DaeMalformedError">>
    /\ docErrors = <<"DaeMalformedError">>
    /\ docTried = <<>>
    /\ docRaised = ""
    /\ \E n \in 1..Len(docLog) : docLog[n] = <<1, "end", "nodes">>

(***************************************************************************)
(* Properties of the error policy during loading                           *)
(***************************************************************************)
\* C34: with the root kind DaeError in the mask, loading a document whose XML
\* parses never aborts with a DaeError: every DaeError arising while loading
\* libraries, nodes (including exhausted node retries), scenes and the default
\* scene is appended to the error list and suppressed.  The asset information,
\* which is read before the libraries, is taken as loaded.
C34_RootMaskSuppressesEveryDaeError ==
    (/\ \E n \in 1..Len(docMask) : docMask[n] = "DaeError"
     /\ \E n \in 1..Len(docLog) : docLog[n] = <<0, "end", "assetInfo">>)
        => docRaised \notin Kinds

(***************************************************************************)
(* Properties of the input resolver: raw tuples                            *)
(***************************************************************************)
\* the raw tuple t is a binding of the table returned, under its semantic
BoundItself(t) ==
    /\ t[2] \in DOMAIN rsResult.table
    /\ \E k \in 1..Len(rsResult.table[t[2]]) : BoundIn(t[2])[k] = t

\* C35: no raw input tuple is silently dropped: when resolution returns
\* normally, every raw tuple is either expanded into its bundle's entries
\* (VERTEX over a bundle) or appears itself as a binding in the output table,
\* including a tuple with a non-VERTEX semantic whose source reference names a
\* bundle entry of the scope.
C35_NoRawTupleDropped ==
    rsResult.res = "ok" =>
        \A n \in 1..Len(rsInputs) :
            LET t == rsInputs[n]
                entry == ScopeGet(rsScope, SourceKey(t[3]))
            IN  IF t[2] = "VERTEX" /\ IsDict(entry)
                THEN \A k \in 1..Len(entry.items) : BoundItself(ExpandBundle(t, entry)[k])
                ELSE BoundItself(t)

(***************************************************************************)
(* Properties of save(): repeated calls                                    *)
(***************************************************************************)
\* C36: save is idempotent: calling save() twice in succession with no
\* mutation in between leaves the tree after the second call equal to the tree
\* after the first call (same library containers, same children in the same
\* order, same scene reference).
C36_SaveIsIdempotent ==
    svLast.op = "resave" => svRoot = svLast.root /\ svSceneRef = svLast.ref

(***************************************************************************)
(* Properties of the default scene                                         *)
(***************************************************************************)
\* the error _loadDefaultScene raises for the url: none for an absent element
\* or the id of a scene in self.scenes
SceneRefError(ref) ==
    IF ref = 0 - 1 THEN "DaeMalformedError"
    ELSE IF ref # 0 /\ ref \notin Range(docColl["scenes"]) THEN "DaeBrokenRefError"
    ELSE ""

\* C37: whenever loading (construction or load_scenes) completes,
\* document.scene is either unset or a member of document.scenes; a
\* default-scene reference that lacks the leading '#' or names an id absent
\* from scenes is routed through handleError as a malformed-document or
\* broken-reference error, and when masked leaves the scene without a member
\* of scenes assigned.
C37_DefaultSceneIsMemberOrUnset ==
    /\ []((docPhase = "ready" /\ docRaised = "")
             => (docScene = 0 \/ docScene \in Range(docColl["scenes"])))
    /\ [][(/\ Len(docDecoded') > Len(docDecoded)
           /\ docDecoded'[Len(docDecoded')][1] = "defaultScene") =>
             LET e == SceneRefError(docDecoded'[Len(docDecoded')][2])
             IN  IF e = ""
                 THEN docErrors' = docErrors /\ docRaised' = ""
                 ELSE /\ docErrors' = Append(docErrors, e)
                      /\ IF MaskedBy(docMask, e)
                         THEN /\ docRaised' = ""
                              /\ docScene' \notin Range(docColl["scenes"])
                              /\ docLog'[Len(docLog')] = <<docCalls, "end", "defaultScene">>
                         ELSE docRaised' = e]_vars

\* a construction with DaeError masked read a url that names no scene of the
\* document: the error was recorded, construction completed, the scene is unset
C37_Witness ==
    /\ docPhase = "ready" /\ docCalls = 0 /\ ~docLazy
    /\ docRaised = ""
    /\ docDecoded # <<>>
    /\ docDecoded[Len(docDecoded)] = <<"defaultScene", MaxItems + 1, "error">>
    /\ docErrors = <<"DaeBrokenRefError">>
    /\ docColl["scenes"] # <<>>
    /\ docScene = 0

====
